---- MODULE Spec2Model ----
(***************************************************************************)
(* A state-machine model of the frame orchestration core of the Gena 2D    *)
(* engine: PassManager, Scene, WindowState, EguiRenderer, the Window       *)
(* trait's redraw/resize handlers, EditorWindow and the App event router.  *)
(*                                                                         *)
(* Every handler of the program is a function from the program's fields    *)
(* (the record W below) to the fields after it, and logs what it does to   *)
(* the GPU, the platform window and the console in `trace`, the effect log *)
(* of the most recent call (its first entry names the call and its         *)
(* arguments).  f32 mouse deltas are modelled by small integers, on which  *)
(* f32 addition, the `as f32` conversion and the comparison with 0.0 are   *)
(* exact.                                                                  *)
(***************************************************************************)
EXTENDS Integers, Sequences, FiniteSets, TLC

\* ------------------------------------------------------------------ bounds
\* largest absolute value an accumulator component is driven to
MaxAcc == 1
\* largest absolute value a Scene accumulator component is driven to when
\* the Scene is called directly
MaxSceneAcc == 2
\* resize events carry dimensions 0..MaxDim
MaxDim == 2
\* PassManager::add is called at most this many times
MaxPasses == 3
\* WindowManager::create_window succeeds at most this many times
MaxWindows == 3
\* SpritePass::add_sprite is called at most this many times
MaxSprites == 3
\* Vfs::mount is called at most this many times
MaxMounts == 3
\* Vfs::write_bytes is called at most this many times
MaxWrites == 1
\* bits of the significand of the binary floating-point format that stands
\* for f32 (f32 has 24)
MantBits == 2
\* the format's exponents are 0..MaxExp above that of its least quantum
MaxExp == 11
\* 1.0 is 2^FracBits quanta
FracBits == 3
\* EguiRenderer::begin_frame is called at most this many times when the
\* renderer is called directly
MaxFrames == 2

\* ------------------------------------------------------- program constants
INITIAL_WIDTH == 1280
INITIAL_HEIGHT == 720
\* SpriteRenderer.instance_capacity, set once by SpriteRenderer::new
instance_capacity == 1024
\* Camera2D.speed, set by Camera2D::new
Camera2D_speed == 500

VARIABLES
    passes,             \* PassManager.passes (the passes' names, in order)
    frame_started,      \* EguiRenderer.frame_started
    scene_mouse_delta,  \* Scene.mouse_delta
    ws_mouse_delta,     \* WindowState.mouse_delta
    ws_mouse_captured,  \* WindowState.mouse_captured
    ws_pressed_keys,    \* WindowState.pressed_keys
    config,             \* WindowState.config (width, height)
    win_mouse_captured, \* EditorWindow.mouse_captured
    win_pressed_keys,   \* EditorWindow.pressed_keys
    pending_mouse,      \* EditorWindow.pending_mouse_dx / pending_mouse_dy
    minimized,          \* platform: winit Window::is_minimized
    redraw_requested,   \* platform: a RedrawRequested event is pending
    exited,             \* platform: ActiveEventLoop::exit was called
    trace,              \* effect log of the most recent call
    ret,                \* value take_mouse_delta returned in the most recent call
    acc_owed,           \* history: sum of the deltas accumulated and not yet drained
    last_resize,        \* history: dimensions of the most recent resize event whose
                        \* two dimensions were non-zero (the initial ones if none)
    acc_drained,        \* history: what the most recent call had to drain (acc_owed
                        \* before it, when it is a drain point; zero otherwise)
    wm_windows,         \* WindowManager.windows (the windows, by WindowId, in order)
    wm_active,          \* WindowManager.active_window (NoWindow for None)
    wm_poisoned,        \* the windows whose Mutex is poisoned
    wm_created,         \* number of windows create_window has made
    panicked,           \* the thread has panicked
    sp_sprites,         \* SpritePass.sprites (each sprite's texture, in order; the
                        \* i-th entry owns the bind group made for it by add_sprite)
    fs_mounts,          \* Vfs.mounts (prefix, fs, writable), in mount order
    fs_created,         \* number of filesystems made and mounted so far
    fs_files,           \* the files of each filesystem: <<>> or <<content>>
    fs_writes,          \* number of write_bytes calls so far
    fs_call,            \* the most recent Vfs call: its name and arguments
    fs_ret,             \* what the most recent Vfs call returned
    cam_position,       \* Camera2D.position (x, y)
    cam_zoom,           \* Camera2D.zoom
    cam_speed,          \* Camera2D.speed
    cam_viewport,       \* Camera2D.viewport_width, viewport_height (whole numbers)
    cam_call,           \* the most recent Camera2D call: its name and arguments
    cam_ret,            \* what the most recent Camera2D call returned
    cam_before,         \* history: Camera2D.position before the most recent call
    key_last,           \* history: for each key, the most recent of press_key and
                        \* release_key called directly on the WindowState for it
    lk_code,            \* the statements the running window handler has yet to run
    lk_held,            \* the locks the thread holds, in the order it acquired them
    lk_doing,           \* the statement the handler has just run
    egui_begun,         \* history: number of EguiRenderer::begin_frame calls
    egui_drawn          \* history: number of UI draws (egui main passes)

\* the fields of the frame machinery, but for the effect log
core_vars == <<passes, frame_started, scene_mouse_delta, ws_mouse_delta,
               ws_mouse_captured, ws_pressed_keys, config, win_mouse_captured,
               win_pressed_keys, pending_mouse, minimized, redraw_requested,
               exited, ret, acc_owed, last_resize, acc_drained>>
\* the fields of the window registry
wm_vars == <<wm_windows, wm_active, wm_poisoned, wm_created, panicked>>

\* the fields of the sprite pass
sp_vars == <<sp_sprites>>

\* the fields of the virtual file system and of the filesystems under it
fs_vars == <<fs_mounts, fs_created, fs_files, fs_writes, fs_call, fs_ret>>

\* the fields of the camera
cam_vars == <<cam_position, cam_zoom, cam_speed, cam_viewport, cam_call,
              cam_ret, cam_before>>

\* the history of the direct key calls
key_vars == <<key_last>>

\* the event thread's position in a window handler and the locks it holds
lock_vars == <<lk_code, lk_held, lk_doing>>

\* the history of the UI frames
egui_vars == <<egui_begun, egui_drawn>>

vars == <<core_vars, trace, wm_vars, sp_vars, fs_vars, cam_vars, key_vars,
          lock_vars, egui_vars>>

\* ----------------------------------------------------------------- values
\* Option::None for a window
NoWindow == 0
Zero2 == <<0, 0>>
Add2(a, b) == <<a[1] + b[1], a[2] + b[2]>>
Sub2(a, b) == <<a[1] - b[1], a[2] - b[2]>>
InAcc(d) == /\ d[1] \in -MaxAcc..MaxAcc
            /\ d[2] \in -MaxAcc..MaxAcc

\* raw pointer-motion deltas delivered by the platform
Deltas == {<<1, 0>>, <<-1, 0>>, <<0, 1>>, <<0, -1>>}
\* the RenderPass implementors of the repository, by RenderPass::name
PassNames == {"sprite_pass", "egui_pass"}
\* key codes: a movement key and the capture-release key
Keys == {"KeyW", "Escape"}
\* winit::window::CursorGrabMode
CursorGrabModes == {"None", "Confined", "Locked"}
\* key codes pressed and released on a WindowState directly
KeyCodes == Keys \cup {"KeyS"}
\* DeviceEvent kinds
DeviceEvents == {"MouseMotion", "Button"}
\* results of Surface::get_current_texture
SurfaceResults == {"Ok", "Outdated", "Lost", "OutOfMemory", "Timeout"}
\* dimensions carried by a resize
Dims == 0..MaxDim

\* paths, as their components; Vfs paths, mount prefixes ("" is <<>>) and
\* the paths relative to a filesystem's root
Paths == {<<"x", "f">>, <<"y", "f">>}
Prefixes == {<<>>, <<"x">>}
RelPaths == {<<"f">>, <<"x", "f">>, <<"y", "f">>}
\* the filesystems, in the order they are made; each starts with these
\* files, holding content that names the filesystem
FsIds == 1..MaxMounts
InitialFiles == {<<"f">>, <<"x", "f">>}
\* the bytes a write_bytes call carries
WriteData == {0}
\* results of the Vfs calls: Ok(()), Ok(content), Ok(bool), Err(message)
Unit == [ok |-> TRUE, data |-> <<>>, err |-> ""]
Ok(d) == [ok |-> TRUE, data |-> d, err |-> ""]
Err(msg) == [ok |-> FALSE, data |-> <<>>, err |-> msg]
NoCall == [op |-> "", path |-> <<>>, data |-> <<>>]

\* ---------------------------------------------------------------- f32
\* A binary floating-point format of IEEE 754's shape stands for f32: a
\* finite value is a whole number of quanta (2^-FracBits) whose magnitude is
\* m * 2^e with m < 2^MantBits and e in 0..MaxExp; the magnitudes below
\* 2^(MantBits-1) are the subnormals.  Every operation rounds its exact
\* result to the nearest value, ties to even, and overflows to an infinity;
\* NaN is the result of the invalid operations.  The sign of zero, which no
\* operation modelled here depends on, is left out.
Pow2(n) == 2 ^ n
One == Pow2(FracBits)
MaxMant == Pow2(MantBits) - 1
MaxFinite == MaxMant * Pow2(MaxExp)
Fin(v) == [c |-> "fin", v |-> v]
PosInf == [c |-> "inf", v |-> 1]
NegInf == [c |-> "inf", v |-> -1]
NaN == [c |-> "nan", v |-> 0]
Inf(sign) == IF sign < 0 THEN NegInf ELSE PosInf
Abs(n) == IF n < 0 THEN -n ELSE n
Sign(n) == IF n < 0 THEN -1 ELSE 1
\* the finite values, in quanta
FiniteValues == {s * m * Pow2(e) : s \in {-1, 1}, m \in 0..MaxMant, e \in 0..MaxExp}
F32Values == {Fin(v) : v \in FiniteValues} \cup {PosInf, NegInf, NaN}
IsFinite(x) == x.c = "fin"
IsNaN(x) == x.c = "nan"

\* a / b rounded to the nearest whole number, ties to even (a >= 0, b > 0)
RoundHalfEven(a, b) ==
    LET fl == a \div b
        rem == a % b
    IN  IF 2 * rem < b THEN fl
        ELSE IF 2 * rem > b THEN fl + 1
        ELSE IF fl % 2 = 0 THEN fl ELSE fl + 1

\* the value nearest to n / d quanta (d > 0)
Round(n, d) ==
    LET a == Abs(n)
    IN  IF 2 * a >= (2 * MaxFinite + Pow2(MaxExp)) * d
        THEN Inf(Sign(n))
        ELSE LET e == CHOOSE k \in 0..MaxExp :
                          /\ a < Pow2(MantBits + k) * d
                          /\ \A j \in 0..(k - 1) : a >= Pow2(MantBits + j) * d
             IN  Fin(Sign(n) * RoundHalfEven(a, d * Pow2(e)) * Pow2(e))

\* the f32 nearest to the number n / d (a literal, or an `as f32`)
F32(n, d) == Round(n * One, d)

FNeg(x) == IF IsNaN(x) THEN NaN ELSE [x EXCEPT !.v = -@]

FAdd(x, y) ==
    IF IsNaN(x) \/ IsNaN(y) THEN NaN
    ELSE IF IsFinite(x) /\ IsFinite(y) THEN Round(x.v + y.v, 1)
    ELSE IF IsFinite(x) THEN y
    ELSE IF IsFinite(y) THEN x
    ELSE IF x = y THEN x ELSE NaN

FSub(x, y) == FAdd(x, FNeg(y))

FMul(x, y) ==
    IF IsNaN(x) \/ IsNaN(y) THEN NaN
    ELSE IF IsFinite(x) /\ IsFinite(y) THEN Round(x.v * y.v, One)
    ELSE IF x.v = 0 \/ y.v = 0 THEN NaN
    ELSE Inf(Sign(x.v) * Sign(y.v))

FDiv(x, y) ==
    IF IsNaN(x) \/ IsNaN(y) THEN NaN
    ELSE IF IsFinite(x) /\ IsFinite(y)
         THEN IF y.v = 0
              THEN IF x.v = 0 THEN NaN ELSE Inf(Sign(x.v))
              ELSE Round(Sign(y.v) * x.v * One, Abs(y.v))
    ELSE IF IsFinite(x) THEN Fin(0)
    ELSE IF IsFinite(y) THEN Inf(Sign(x.v) * Sign(y.v))
    ELSE NaN

\* x < y and x <= y; false when either is NaN
FLt(x, y) ==
    /\ ~IsNaN(x) /\ ~IsNaN(y)
    /\ IF IsFinite(x)
       THEN IF IsFinite(y) THEN x.v < y.v ELSE y.v > 0
       ELSE IF IsFinite(y) THEN x.v < 0 ELSE x.v < y.v
FLe(x, y) == ~IsNaN(x) /\ ~IsNaN(y) /\ (x = y \/ FLt(x, y))

\* f32::min and f32::max: a NaN argument is ignored
FMin(x, y) == IF IsNaN(x) THEN y ELSE IF IsNaN(y) THEN x
              ELSE IF FLt(y, x) THEN y ELSE x
FMax(x, y) == IF IsNaN(x) THEN y ELSE IF IsNaN(y) THEN x
              ELSE IF FLt(x, y) THEN y ELSE x

NoCamCall == [op |-> "", args |-> <<>>]

\* statements of a window handler: a lock acquired (Mutex::lock), a guard
\* dropped, anything else it does
Lock(l) == [op |-> "lock", arg |-> l]
Unlock(l) == [op |-> "unlock", arg |-> l]
Do(e) == [op |-> "do", arg |-> e]

\* a camera's fields: position, zoom, speed, viewport size (whole numbers
\* of pixels, exact in f32), and ret, what a call on it returned
Camera2D_new_centered(x, y, viewport_width, viewport_height) ==
    [position |-> <<x, y>>, zoom |-> F32(1, 1),
     speed |-> F32(Camera2D_speed, 1),
     viewport |-> <<viewport_width, viewport_height>>,
     ret |-> <<F32(0, 1), F32(0, 1)>>]

Camera2D_new(viewport_width, viewport_height) ==
    [position |-> <<F32(0, 1), F32(0, 1)>>, zoom |-> F32(1, 1),
     speed |-> F32(Camera2D_speed, 1),
     viewport |-> <<viewport_width, viewport_height>>,
     ret |-> <<F32(0, 1), F32(0, 1)>>]

\* entries of the effect log
Ev(e) == [ev |-> e, s |-> "", d |-> Zero2]
EvS(e, str) == [ev |-> e, s |-> str, d |-> Zero2]
EvD(e, vec) == [ev |-> e, s |-> "", d |-> vec]
EvSD(e, str, vec) == [ev |-> e, s |-> str, d |-> vec]

\* the program's fields as one record
W == [passes |-> passes, frame_started |-> frame_started,
      scene_mouse_delta |-> scene_mouse_delta,
      ws_mouse_delta |-> ws_mouse_delta,
      ws_mouse_captured |-> ws_mouse_captured,
      ws_pressed_keys |-> ws_pressed_keys, config |-> config,
      win_mouse_captured |-> win_mouse_captured,
      win_pressed_keys |-> win_pressed_keys,
      pending_mouse |-> pending_mouse, minimized |-> minimized,
      redraw_requested |-> redraw_requested, exited |-> exited,
      trace |-> trace, ret |-> ret]

\* the fields of the frame machinery become those of w
ApplyFields(w) ==
    /\ passes' = w.passes
    /\ frame_started' = w.frame_started
    /\ scene_mouse_delta' = w.scene_mouse_delta
    /\ ws_mouse_delta' = w.ws_mouse_delta
    /\ ws_mouse_captured' = w.ws_mouse_captured
    /\ ws_pressed_keys' = w.ws_pressed_keys
    /\ config' = w.config
    /\ win_mouse_captured' = w.win_mouse_captured
    /\ win_pressed_keys' = w.win_pressed_keys
    /\ pending_mouse' = w.pending_mouse
    /\ minimized' = w.minimized
    /\ redraw_requested' = w.redraw_requested
    /\ exited' = w.exited
    /\ trace' = w.trace
    /\ ret' = w.ret

Apply(w) ==
    /\ ApplyFields(w)
    /\ UNCHANGED <<wm_vars, sp_vars, fs_vars, cam_vars, key_vars, lock_vars,
                   egui_vars>>

\* a call that is no drain point of the accumulated mouse deltas
NoDrain ==
    /\ acc_owed' = acc_owed
    /\ acc_drained' = Zero2
    /\ last_resize' = last_resize

\* F applied to the value of x: x is evaluated once, however often F uses it
Eval(F(_), x) == CHOOSE r \in {F(v) : v \in {x}} : TRUE

Log(w, e) == [w EXCEPT !.trace = Append(@, e)]
\* a call starts a fresh effect log; it returns () unless it sets ret
Call(w, e) == [w EXCEPT !.trace = <<e>>, !.ret = Zero2]

\* the state after construction (WindowState::new, Scene::new,
\* EditorWindow::new) with the pass list given
InitWithCamera(ps, c) ==
    /\ passes = ps
    /\ frame_started = FALSE
    /\ scene_mouse_delta = Zero2
    /\ ws_mouse_delta = Zero2
    /\ ws_mouse_captured = FALSE
    /\ ws_pressed_keys = {}
    /\ config = [width |-> INITIAL_WIDTH, height |-> INITIAL_HEIGHT]
    /\ win_mouse_captured = FALSE
    /\ win_pressed_keys = {}
    /\ pending_mouse = Zero2
    /\ minimized = FALSE
    /\ redraw_requested = FALSE
    /\ exited = FALSE
    /\ trace = <<>>
    /\ ret = Zero2
    /\ acc_owed = Zero2
    /\ acc_drained = Zero2
    /\ last_resize = <<INITIAL_WIDTH, INITIAL_HEIGHT>>
    /\ wm_windows = <<>>
    /\ wm_active = NoWindow
    /\ wm_poisoned = {}
    /\ wm_created = 0
    /\ panicked = FALSE
    /\ sp_sprites = <<>>
    /\ fs_mounts = <<>>
    /\ fs_created = 0
    /\ fs_files = [fs \in FsIds |-> [rel \in RelPaths |->
                        IF rel \in InitialFiles THEN <<fs>> ELSE <<>>]]
    /\ fs_writes = 0
    /\ fs_call = NoCall
    /\ fs_ret = Unit
    /\ cam_position = c.position
    /\ cam_zoom = c.zoom
    /\ cam_speed = c.speed
    /\ cam_viewport = c.viewport
    /\ cam_call = NoCamCall
    /\ cam_ret = c.ret
    /\ cam_before = c.position
    /\ key_last = [key \in KeyCodes |-> "none"]
    /\ lk_code = <<>>
    /\ lk_held = <<>>
    /\ lk_doing = Do("")
    /\ egui_begun = 0
    /\ egui_drawn = 0

\* EditorWindow::new makes the camera for the window's initial size
InitWith(ps) ==
    InitWithCamera(ps, Camera2D_new(INITIAL_WIDTH, INITIAL_HEIGHT))

\* ----------------------------------------------------------- EguiRenderer
EguiRenderer_begin_frame(w) ==
    [Log(w, Ev("egui_begin_pass")) EXCEPT !.frame_started = TRUE]

\* the drawing part of end_frame_and_draw: end_pass, buffer upload into the
\* encoder, and the "egui main pass" render pass, which is closed when the
\* function returns
EguiRenderer_draw(w) ==
    Log(Log(Log(w, Ev("egui_end_pass")), Ev("egui_update_buffers")),
        Ev("egui_main_pass"))

EguiRenderer_end_frame_and_draw_no_reset(w) ==
    Eval(LAMBDA v :
            IF ~v.frame_started
            THEN Log(v, Ev("egui_warn_no_begin_frame"))
            ELSE EguiRenderer_draw(v),
         w)

\* the frame_started check is missing: the draw runs on a frame never begun
EguiRenderer_end_frame_and_draw_unguarded(w) ==
    [EguiRenderer_draw(w) EXCEPT !.frame_started = FALSE]

EguiRenderer_end_frame_and_draw(w) ==
    Eval(LAMBDA v :
            IF ~v.frame_started
            THEN Log(v, Ev("egui_warn_no_begin_frame"))
            ELSE [EguiRenderer_draw(v) EXCEPT !.frame_started = FALSE],
         w)

\* ------------------------------------------------------------ RenderPass
EguiPass_execute(w) ==
    EguiRenderer_end_frame_and_draw(Log(w, EvS("execute", "egui_pass")))

SpritePass_execute(w) ==
    Log(Log(w, EvS("execute", "sprite_pass")), Ev("sprite_render_pass"))

\* dynamic dispatch of RenderPass::execute; the log brackets the call
RenderPass_execute(w, p) ==
    Log(IF p = "egui_pass" THEN EguiPass_execute(w) ELSE SpritePass_execute(w),
        EvS("executed", p))

\* both implementors' prepare is a no-op
RenderPass_prepare(w, p) == Log(w, EvS("prepare", p))

\* ----------------------------------------------------------- PassManager
PassManager_new == <<>>

PassManager_add(w, p) == [w EXCEPT !.passes = Append(@, p)]

PassManager_clear(w) == [w EXCEPT !.passes = <<>>]

RECURSIVE PrepareFrom(_, _)
PrepareFrom(w, i) ==
    Eval(LAMBDA v :
            IF i > Len(v.passes) THEN v
            ELSE PrepareFrom(RenderPass_prepare(v, v.passes[i]), i + 1),
         w)

PassManager_prepare_all(w) == PrepareFrom(w, 1)

RECURSIVE ExecuteFrom(_, _)
ExecuteFrom(w, i) ==
    Eval(LAMBDA v :
            IF i > Len(v.passes) THEN v
            ELSE ExecuteFrom(RenderPass_execute(v, v.passes[i]), i + 1),
         w)

RECURSIVE ExecuteDownFrom(_, _)
ExecuteDownFrom(w, i) ==
    Eval(LAMBDA v :
            IF i < 1 THEN v
            ELSE ExecuteDownFrom(RenderPass_execute(v, v.passes[i]), i - 1),
         w)

PassManager_execute_all_reversed(w) == ExecuteDownFrom(w, Len(w.passes))

PassManager_execute_all(w) == ExecuteFrom(w, 1)

\* ------------------------------------------------------------------ Scene
Scene_new == Zero2

Scene_accumulate_mouse_overwrite(w, dx, dy) ==
    [w EXCEPT !.scene_mouse_delta = <<dx, dy>>]

Scene_accumulate_mouse(w, dx, dy) ==
    [w EXCEPT !.scene_mouse_delta = <<@[1] + dx, @[2] + dy>>]

\* Vector2::norm() is the square root of this; it is > 0.0 exactly when
\* this is
NormSquared(v) == v[1] * v[1] + v[2] * v[2]

\* the accumulated delta is consumed where the camera would take it
Scene_update(w) ==
    Eval(LAMBDA v :
            IF NormSquared(v.scene_mouse_delta) > 0
            THEN [Log(v, EvD("scene_consume_mouse", v.scene_mouse_delta))
                    EXCEPT !.scene_mouse_delta = Zero2]
            ELSE v,
         Log(w, Ev("scene_update")))

Scene_prepare_gpu(w) == Log(w, Ev("scene_prepare_gpu"))

Scene_render(w) == Log(w, Ev("scene_render"))

\* ------------------------------------------------------------ WindowState
WindowState_handle_device_event_uncaptured(w, kind, d) ==
    IF kind = "MouseMotion"
    THEN [w EXCEPT !.ws_mouse_delta = Add2(@, d)]
    ELSE w

WindowState_handle_device_event(w, kind, d) ==
    IF kind = "MouseMotion"
    THEN IF w.ws_mouse_captured
         THEN [w EXCEPT !.ws_mouse_delta = Add2(@, d)]
         ELSE w
    ELSE w

WindowState_press_key(w, key) == [w EXCEPT !.ws_pressed_keys = @ \cup {key}]

WindowState_release_key_all(w, key) == [w EXCEPT !.ws_pressed_keys = {}]

WindowState_release_key(w, key) == [w EXCEPT !.ws_pressed_keys = @ \ {key}]

WindowState_is_key_pressed(w, key) == key \in w.ws_pressed_keys

WindowState_take_mouse_delta_keep(w) ==
    Eval(LAMBDA v : [v EXCEPT !.ret = v.ws_mouse_delta], w)

WindowState_take_mouse_delta(w) ==
    Eval(LAMBDA v : [v EXCEPT !.ret = v.ws_mouse_delta,
                              !.ws_mouse_delta = Zero2],
         w)

\* winit's Window::set_cursor_grab: the platform grants the modes of grants
\* and denies the others with an error
Window_set_cursor_grab(w, mode, grants) ==
    IF mode \in grants
    THEN Log(w, EvS("set_cursor_grab", mode))
    ELSE Log(Log(w, EvS("set_cursor_grab", mode)),
             EvS("cursor_grab_denied", mode))

\* a denied grab makes the call return before the flag is set
WindowState_set_mouse_capture_checked(w, capture, grants) ==
    LET first == IF capture THEN "Locked" ELSE "None"
        w1 == Window_set_cursor_grab(w, first, grants)
        w2 == IF first \in grants THEN w1
              ELSE Window_set_cursor_grab(w1, "Confined", grants)
    IN  IF first \in grants \/ "Confined" \in grants
        THEN Log([w2 EXCEPT !.ws_mouse_captured = capture],
                 EvS("set_cursor_visible",
                     IF capture THEN "false" ELSE "true"))
        ELSE w2

WindowState_set_mouse_capture(w, capture, grants) ==
    LET first == IF capture THEN "Locked" ELSE "None"
        w1 == [w EXCEPT !.ws_mouse_captured = capture]
        w2 == Window_set_cursor_grab(w1, first, grants)
        w3 == IF first \in grants THEN w2
              ELSE Window_set_cursor_grab(w2, "Confined", grants)
    IN  Log(w3, EvS("set_cursor_visible",
                    IF capture THEN "false" ELSE "true"))

WindowState_is_mouse_captured(w) == w.ws_mouse_captured

WindowState_begin_frame(w) == EguiRenderer_begin_frame(w)

WindowState_end_frame_and_draw(w) == EguiRenderer_end_frame_and_draw(w)

WindowState_resize_surface(w, width, height) ==
    Log([w EXCEPT !.config = [width |-> width, height |-> height]],
        EvD("surface_configure", <<width, height>>))

\* ------------------------------------------- Window (default trait methods)
Window_handle_resized_either(w, width, height) ==
    IF width > 0 \/ height > 0
    THEN WindowState_resize_surface(w, width, height)
    ELSE w

Window_handle_resized(w, width, height) ==
    IF width > 0 /\ height > 0
    THEN WindowState_resize_surface(w, width, height)
    ELSE w

\* what Window::handle_redraw does when get_current_texture fails
handle_redraw_surface_error_exit_on_oom(w, status) ==
    Eval(LAMBDA v :
            IF status = "Outdated" THEN v
            ELSE IF status = "Lost"
                 THEN WindowState_resize_surface(v, v.config.width,
                                                 v.config.height)
                 ELSE IF status = "OutOfMemory"
                      THEN [Log(v, EvS("eprintln", "Surface out of memory!"))
                              EXCEPT !.exited = TRUE]
                      ELSE Log(v, EvS("eprintln", "Surface error")),
         w)

handle_redraw_surface_error(w, status) ==
    Eval(LAMBDA v :
            IF status = "Outdated" THEN v
            ELSE IF status = "Lost"
                 THEN WindowState_resize_surface(v, v.config.width,
                                                 v.config.height)
                 ELSE IF status = "OutOfMemory"
                      THEN Log(v, EvS("eprintln", "Surface out of memory!"))
                      ELSE Log(v, EvS("eprintln", "Surface error")),
         w)

Window_request_redraw(w) ==
    [Log(w, Ev("request_redraw")) EXCEPT !.redraw_requested = TRUE]

\* ----------------------------------------------------------- EditorWindow
\* EditorWindow::new registers the sprite pass, then the egui pass
EditorWindow_new_passes ==
    PassManager_add(PassManager_add([passes |-> PassManager_new],
                                    "sprite_pass"), "egui_pass").passes

\* the camera moves once for each pressed movement key (of Keys, KeyW)
EditorWindow_process_continuous_movement(w) ==
    Eval(LAMBDA v :
            IF v.win_pressed_keys = {} THEN v
            ELSE IF "KeyW" \in v.win_pressed_keys
                 THEN Log(v, EvS("camera_process_movement", "Up"))
                 ELSE v,
         w)

EditorWindow_set_mouse_capture(w, capture) ==
    LET w1 == [w EXCEPT !.win_mouse_captured = capture]
    IN  IF capture
        THEN Log(Log(w1, EvS("set_cursor_grab", "Locked")),
                 EvS("set_cursor_visible", "false"))
        ELSE Log(Log(w1, EvS("set_cursor_grab", "None")),
                 EvS("set_cursor_visible", "true"))

EditorWindow_is_mouse_captured(w) == w.win_mouse_captured

\* the part of EditorWindow::render that hands the mouse delta to the
\* scene; w is the state after take_mouse_delta, which left (dx, dy) in ret
EditorWindow_render_mouse(w) ==
    Eval(LAMBDA v :
            LET dx == v.ret[1]
                dy == v.ret[2]
            IN  IF WindowState_is_mouse_captured(v) /\ (dx # 0 \/ dy # 0)
                THEN Scene_accumulate_mouse(v, dx, dy)
                ELSE IF v.win_mouse_captured
                     THEN IF v.pending_mouse[1] # 0 \/ v.pending_mouse[2] # 0
                          THEN [Scene_accumulate_mouse(v, v.pending_mouse[1],
                                                       v.pending_mouse[2])
                                  EXCEPT !.pending_mouse = Zero2]
                          ELSE v
                     ELSE v,
         w)

EditorWindow_render(w) ==
    LET w1 == Log(w, Ev("delta_timer_update"))
        w2 == EditorWindow_process_continuous_movement(w1)
        w3 == WindowState_take_mouse_delta(w2)
        w4 == EditorWindow_render_mouse(w3)
        w5 == Scene_update(w4)
        w6 == Scene_prepare_gpu(w5)
        w7 == Scene_render(w6)
    IN  PassManager_execute_all(w7)

EditorWindow_draw(w) == Log(w, Ev("draw"))

EditorWindow_device_event(w, kind, d) ==
    IF kind = "MouseMotion" /\ w.win_mouse_captured
    THEN [w EXCEPT !.pending_mouse = Add2(@, d)]
    ELSE w

EditorWindow_on_key_pressed(w, key) ==
    [w EXCEPT !.win_pressed_keys = @ \cup {key}]

\* the window forgets no key
EditorWindow_on_key_released_kept(w, key) == w

EditorWindow_on_key_released(w, key) ==
    [w EXCEPT !.win_pressed_keys = @ \ {key}]

EditorWindow_handle_resized_unguarded(w, width, height) ==
    Log(WindowState_resize_surface(w, width, height),
        EvD("camera_set_viewport_size", <<width, height>>))

\* the resize reconfigures the surface and leaves the camera alone
EditorWindow_handle_resized_surface_only(w, width, height) ==
    IF width > 0 /\ height > 0
    THEN WindowState_resize_surface(w, width, height)
    ELSE w

EditorWindow_handle_resized(w, width, height) ==
    IF width > 0 /\ height > 0
    THEN Log(WindowState_resize_surface(w, width, height),
             EvD("camera_set_viewport_size", <<width, height>>))
    ELSE w

\* Window::handle_redraw, with EditorWindow's render and draw
Window_handle_redraw(w, status) ==
    Eval(LAMBDA v :
            IF v.minimized THEN v
            ELSE LET w0 == Log(v, EvS("get_current_texture", status))
                 IN  IF status # "Ok"
                     THEN handle_redraw_surface_error(w0, status)
                     ELSE LET w1 == Log(w0, Ev("create_view"))
                              w2 == Log(w1, Ev("create_command_encoder"))
                              w3 == EditorWindow_render(w2)
                              w4 == WindowState_begin_frame(w3)
                              w5 == EditorWindow_draw(w4)
                              w6 == WindowState_end_frame_and_draw(w5)
                              w7 == Log(w6, Ev("queue_submit"))
                              w8 == Log(w7, Ev("present"))
                          IN  Window_request_redraw(w8),
         w)

\* -------------------------------------------------------------------- App
\* egui_renderer.handle_input(wnd, &event).consumed, as window_event reads
\* it before it dispatches the event
EguiRenderer_handle_input(w, consumed) ==
    Log(w, EvS("egui_handle_input",
               IF consumed THEN "consumed" ELSE "not consumed"))

App_keyboard_input_ignoring_consumed(w, key, pressed, consumed) ==
    LET w0 == EguiRenderer_handle_input(w, consumed)
    IN  IF pressed
        THEN IF EditorWindow_is_mouse_captured(w0)
             THEN IF key = "Escape"
                  THEN EditorWindow_set_mouse_capture(w0, FALSE)
                  ELSE WindowState_press_key(
                           EditorWindow_on_key_pressed(w0, key), key)
             ELSE w0
        ELSE WindowState_release_key(EditorWindow_on_key_released(w0, key), key)

\* App::window_event for a KeyboardInput event
App_keyboard_input(w, key, pressed, consumed) ==
    LET w0 == EguiRenderer_handle_input(w, consumed)
    IN  IF consumed THEN w0
        ELSE IF pressed
             THEN IF EditorWindow_is_mouse_captured(w0)
                  THEN IF key = "Escape"
                       THEN EditorWindow_set_mouse_capture(w0, FALSE)
                       ELSE Log(WindowState_press_key(
                                    EditorWindow_on_key_pressed(w0, key), key),
                                EvS("log_info", "Pressed key"))
                  ELSE w0
             ELSE WindowState_release_key(
                      EditorWindow_on_key_released(w0, key), key)

\* the button's ElementState is not looked at
App_mouse_input_any_state(w, pressed, consumed) ==
    LET w0 == EguiRenderer_handle_input(w, consumed)
    IN  IF ~consumed
        THEN EditorWindow_set_mouse_capture(w0, TRUE)
        ELSE w0

\* App::window_event for a MouseInput event
App_mouse_input(w, pressed, consumed) ==
    LET w0 == EguiRenderer_handle_input(w, consumed)
    IN  IF ~consumed /\ pressed
        THEN EditorWindow_set_mouse_capture(w0, TRUE)
        ELSE w0

\* App::window_event for a CloseRequested event
App_close_requested(w) == [Log(w, Ev("event_loop_exit")) EXCEPT !.exited = TRUE]

\* App::device_event: the active window is the editor window
App_device_event(w, kind, d) == EditorWindow_device_event(w, kind, d)

\* ------------------------------------------------ the pass-manager machine
\* calls on a PassManager and on the EguiRenderer its passes draw with
PM_Add ==
    \E p \in PassNames :
        /\ Len(passes) < MaxPasses
        /\ Apply(PassManager_add(Call(W, EvS("add", p)), p))
        /\ NoDrain

PM_Clear ==
    /\ Apply(PassManager_clear(Call(W, Ev("clear"))))
    /\ NoDrain

PM_PrepareAll ==
    /\ Apply(PassManager_prepare_all(Call(W, Ev("prepare_all"))))
    /\ NoDrain

PM_ExecuteAll ==
    /\ Apply(PassManager_execute_all(Call(W, Ev("execute_all"))))
    /\ NoDrain

PM_BeginFrame ==
    /\ Apply(EguiRenderer_begin_frame(Call(W, Ev("begin_frame"))))
    /\ NoDrain

\* EguiRenderer::end_frame_and_draw called directly, on any encoder
PM_EndFrameAndDraw ==
    /\ Apply(EguiRenderer_end_frame_and_draw(Call(W, Ev("end_frame_and_draw"))))
    /\ NoDrain

InitPM == InitWith(PassManager_new)

NextPM ==
    \/ PM_Add
    \/ PM_Clear
    \/ PM_PrepareAll
    \/ PM_ExecuteAll
    \/ PM_BeginFrame
    \/ PM_EndFrameAndDraw

SpecPM == InitPM /\ [][NextPM]_vars

\* the names of the passes whose execute the log records, in log order
RECURSIVE ExecutedNames(_)
ExecutedNames(t) ==
    IF t = <<>> THEN <<>>
    ELSE IF Head(t).ev = "execute"
         THEN <<Head(t).s>> \o ExecutedNames(Tail(t))
         ELSE ExecutedNames(Tail(t))

\* C1: every execute_all calls execute once on each registered pass, in
\* registration order, and leaves the registered list as it was (so the
\* order is the same on every frame).
C1_ExecuteAllInRegistrationOrder ==
    [][trace'[1].ev = "execute_all" =>
          /\ ExecutedNames(trace') = passes
          /\ passes' = passes]_vars

\* an execute_all over two different registered passes has run
C1_Witness ==
    /\ trace # <<>>
    /\ trace[1].ev = "execute_all"
    /\ Len(passes) >= 2
    /\ passes[1] # passes[2]
    /\ ExecutedNames(trace) = passes

\* ------------------------------------------------------ the scene machine
\* calls on a Scene
ConsumedBy(t) ==
    IF \E i \in 1..Len(t) : t[i].ev = "scene_consume_mouse"
    THEN t[CHOOSE i \in 1..Len(t) : t[i].ev = "scene_consume_mouse"].d
    ELSE Zero2

SC_AccumulateMouse ==
    \E d \in Deltas :
        /\ LET sum == Add2(scene_mouse_delta, d)
           IN  /\ sum[1] \in -MaxSceneAcc..MaxSceneAcc
               /\ sum[2] \in -MaxSceneAcc..MaxSceneAcc
        /\ Apply(Scene_accumulate_mouse(Call(W, EvD("accumulate_mouse", d)),
                                        d[1], d[2]))
        /\ acc_owed' = Add2(acc_owed, d)
        /\ acc_drained' = Zero2
        /\ UNCHANGED last_resize

SC_Update ==
    LET w2 == Scene_update(Call(W, Ev("update")))
    IN  /\ Apply(w2)
        /\ acc_drained' = acc_owed
        /\ acc_owed' = Sub2(acc_owed, ConsumedBy(w2.trace))
        /\ UNCHANGED last_resize

SC_PrepareGpu ==
    /\ Apply(Scene_prepare_gpu(Call(W, Ev("prepare_gpu"))))
    /\ NoDrain

SC_Render ==
    /\ Apply(Scene_render(Call(W, Ev("render"))))
    /\ NoDrain

InitScene == InitWith(PassManager_new)

NextScene == SC_AccumulateMouse \/ SC_Update \/ SC_PrepareGpu \/ SC_Render

SpecScene == InitScene /\ [][NextScene]_vars

WS_HandleDeviceEvent ==
    \E kind \in DeviceEvents, d \in Deltas :
        /\ InAcc(Add2(ws_mouse_delta, d))
        /\ Apply(WindowState_handle_device_event(
                    Call(W, EvSD("handle_device_event", kind, d)), kind, d))
        /\ acc_owed' = IF kind = "MouseMotion" /\ ws_mouse_captured
                       THEN Add2(acc_owed, d) ELSE acc_owed
        /\ acc_drained' = Zero2
        /\ UNCHANGED last_resize

WS_TakeMouseDelta ==
    LET w2 == WindowState_take_mouse_delta(Call(W, Ev("take_mouse_delta")))
    IN  /\ Apply(w2)
        /\ acc_drained' = acc_owed
        /\ acc_owed' = Sub2(acc_owed, w2.ret)
        /\ UNCHANGED last_resize

WS_SetMouseCapture ==
    \E capture \in BOOLEAN, grants \in SUBSET CursorGrabModes :
        /\ Apply(WindowState_set_mouse_capture(
                    Call(W, EvS("set_mouse_capture",
                                IF capture THEN "true" ELSE "false")),
                    capture, grants))
        /\ NoDrain

WS_PressKey ==
    \E key \in Keys :
        /\ Apply(WindowState_press_key(Call(W, EvS("press_key", key)), key))
        /\ NoDrain

WS_ReleaseKey ==
    \E key \in Keys :
        /\ Apply(WindowState_release_key(Call(W, EvS("release_key", key)), key))
        /\ NoDrain

WS_ResizeSurface ==
    \E width \in Dims, height \in Dims :
        /\ Apply(WindowState_resize_surface(
                    Call(W, EvD("resize_surface", <<width, height>>)),
                    width, height))
        /\ NoDrain

WS_HandleResized ==
    \E width \in Dims, height \in Dims :
        /\ Apply(Window_handle_resized(
                    Call(W, EvD("handle_resized", <<width, height>>)),
                    width, height))
        /\ NoDrain

InitWS == InitWith(PassManager_new)

NextWS ==
    \/ WS_HandleDeviceEvent
    \/ WS_TakeMouseDelta
    \/ WS_SetMouseCapture
    \/ WS_PressKey
    \/ WS_ReleaseKey
    \/ WS_ResizeSurface
    \/ WS_HandleResized

SpecWS == InitWS /\ [][NextWS]_vars

\* ------------------------------------------------------ the key machine
\* press_key, release_key and is_key_pressed called on a WindowState
ApplyKeys(w, last) ==
    /\ ws_pressed_keys' = w.ws_pressed_keys
    /\ trace' = w.trace
    /\ key_last' = last
    /\ UNCHANGED <<passes, frame_started, scene_mouse_delta, ws_mouse_delta,
                   ws_mouse_captured, config, win_mouse_captured,
                   win_pressed_keys, pending_mouse, minimized,
                   redraw_requested, exited, ret, acc_owed, last_resize,
                   acc_drained, wm_vars, sp_vars, fs_vars, cam_vars,
                   lock_vars,
                   egui_vars>>

KEY_PressKey ==
    \E key \in KeyCodes :
        ApplyKeys(WindowState_press_key(Call(W, EvS("press_key", key)), key),
                  [key_last EXCEPT ![key] = "press"])

KEY_ReleaseKey ==
    \E key \in KeyCodes :
        ApplyKeys(WindowState_release_key(
                      Call(W, EvS("release_key", key)), key),
                  [key_last EXCEPT ![key] = "release"])

\* is_key_pressed; the log keeps what it returned
KEY_IsKeyPressed ==
    \E key \in KeyCodes :
        ApplyKeys(Log(Call(W, EvS("is_key_pressed", key)),
                      EvS("returned",
                          IF WindowState_is_key_pressed(W, key)
                          THEN "true" ELSE "false")),
                  key_last)

InitKeys == InitWith(PassManager_new)

NextKeys ==
    \/ KEY_PressKey
    \/ KEY_ReleaseKey
    \/ KEY_IsKeyPressed

SpecKeys == InitKeys /\ [][NextKeys]_vars

\* C24: the key operations are idempotent set-membership operations:
\* press_key(k) on a pressed key and release_key(k) on a key that is not
\* pressed change nothing, is_key_pressed(k) is true exactly when the most
\* recent press_key/release_key for k was a press, and an operation on k
\* never changes the membership of another key.
C24_KeysAreASet ==
    [][\A key \in KeyCodes :
          /\ trace'[1] = EvS("press_key", key) =>
                /\ key \in ws_pressed_keys'
                /\ key \in ws_pressed_keys => ws_pressed_keys' = ws_pressed_keys
          /\ trace'[1] = EvS("release_key", key) =>
                /\ key \notin ws_pressed_keys'
                /\ key \notin ws_pressed_keys => ws_pressed_keys' = ws_pressed_keys
          /\ trace'[1] = EvS("is_key_pressed", key) =>
                /\ ws_pressed_keys' = ws_pressed_keys
                /\ trace'[2].s = "true" <=> key_last[key] = "press"
          /\ trace'[1].s = key =>
                \A other \in KeyCodes \ {key} :
                    other \in ws_pressed_keys' <=> other \in ws_pressed_keys
      ]_vars

\* a released key is reported as not pressed, while another key stays
\* pressed
C24_Witness ==
    /\ trace = <<EvS("is_key_pressed", "KeyW"), EvS("returned", "false")>>
    /\ key_last["KeyW"] = "release"
    /\ ws_pressed_keys = {"KeyS"}

Configures(t) == {i \in 1..Len(t) : t[i].ev = "surface_configure"}

\* C4: take_mouse_delta returns the sum of the deltas accumulated by
\* captured motion events since the previous take_mouse_delta (or since
\* construction) and resets the accumulator to (0,0); every accumulated
\* delta is returned by exactly one call, and a take_mouse_delta right
\* after another returns (0,0).
C4_TakeReturnsSumAndResets ==
    (trace # <<>> /\ trace[1].ev = "take_mouse_delta") =>
        /\ ret = acc_drained
        /\ ws_mouse_delta = Zero2
        /\ acc_owed = Zero2

\* a take_mouse_delta has returned a delta that took two motion events
C4_Witness ==
    /\ trace # <<>>
    /\ trace[1].ev = "take_mouse_delta"
    /\ ret = <<-1, 1>>

\* C6: handle_device_event adds the event's delta to the mouse accumulator
\* only for a pointer-motion event with the capture flag set; otherwise the
\* accumulator is unchanged; the pressed keys, the capture flag and the
\* surface configuration are unchanged in every case.
C6_DeviceEventFrame ==
    [][trace'[1].ev = "handle_device_event" =>
          /\ ws_mouse_delta' =
                IF trace'[1].s = "MouseMotion" /\ ws_mouse_captured
                THEN Add2(ws_mouse_delta, trace'[1].d)
                ELSE ws_mouse_delta
          /\ ws_pressed_keys' = ws_pressed_keys
          /\ ws_mouse_captured' = ws_mouse_captured
          /\ config' = config
          /\ Configures(trace') = {}]_vars

\* a captured motion event has been accumulated, with a key pressed
C6_Witness ==
    /\ trace # <<>>
    /\ trace[1].ev = "handle_device_event"
    /\ trace[1].s = "MouseMotion"
    /\ trace[1].d # Zero2
    /\ ws_mouse_captured
    /\ ws_mouse_delta = trace[1].d
    /\ ws_pressed_keys # {}

ZeroDim(d) == d[1] = 0 \/ d[2] = 0

Count(t, e) == Cardinality({i \in 1..Len(t) : t[i].ev = e})
Places(t, e) == {i \in 1..Len(t) : t[i].ev = e}
IsCall(t, e) == t # <<>> /\ t[1].ev = e
FrameRendered(t) == IsCall(t, "handle_redraw") /\ Count(t, "present") > 0

\* WindowEvent::RedrawRequested: winit delivers a pending redraw request
EvRedrawRequested ==
    \E status \in SurfaceResults :
        /\ ~exited
        /\ redraw_requested
        /\ \E w2 \in {Window_handle_redraw(
                            [Call(W, Ev("handle_redraw"))
                               EXCEPT !.redraw_requested = FALSE], status)} :
               /\ Apply(w2)
               /\ acc_drained' = IF Count(w2.trace, "present") > 0
                                 THEN acc_owed ELSE Zero2
               /\ acc_owed' = Sub2(acc_owed, ConsumedBy(w2.trace))
               /\ UNCHANGED last_resize

\* WindowEvent::Resized
EvResized ==
    \E width \in Dims, height \in Dims :
        /\ ~exited
        /\ Apply(EditorWindow_handle_resized(
                    Call(W, EvD("resized", <<width, height>>)), width, height))
        /\ last_resize' = IF width # 0 /\ height # 0
                          THEN <<width, height>> ELSE last_resize
        /\ acc_owed' = acc_owed
        /\ acc_drained' = Zero2

\* WindowEvent::KeyboardInput; egui says whether it consumed the event
EvKeyboardInput ==
    \E key \in Keys, pressed \in BOOLEAN, consumed \in BOOLEAN :
        /\ ~exited
        /\ Apply(App_keyboard_input(
                    Call(W, EvS("keyboard_input", key)), key, pressed, consumed))
        /\ NoDrain

\* WindowEvent::MouseInput
EvMouseInput ==
    \E pressed \in BOOLEAN, consumed \in BOOLEAN :
        /\ ~exited
        /\ Apply(App_mouse_input(Call(W, Ev("mouse_input")), pressed, consumed))
        /\ NoDrain

\* WindowEvent::CloseRequested
EvCloseRequested ==
    /\ ~exited
    /\ Apply(App_close_requested(Call(W, Ev("close_requested"))))
    /\ NoDrain

\* a DeviceEvent
EvDeviceEvent ==
    \E kind \in DeviceEvents, d \in Deltas :
        /\ ~exited
        /\ InAcc(Add2(pending_mouse, d))
        /\ Apply(App_device_event(Call(W, EvSD("device_event", kind, d)), kind, d))
        /\ acc_owed' = IF kind = "MouseMotion" /\ win_mouse_captured
                       THEN Add2(acc_owed, d) ELSE acc_owed
        /\ acc_drained' = Zero2
        /\ UNCHANGED last_resize

\* the platform asks for a redraw itself (the window is shown, exposed)
PlatformExpose ==
    /\ ~exited
    /\ ~redraw_requested
    /\ Apply([Call(W, Ev("platform_expose")) EXCEPT !.redraw_requested = TRUE])
    /\ NoDrain

\* the user minimizes or restores the window
PlatformMinimize ==
    /\ ~exited
    /\ Apply([Call(W, Ev("platform_minimize")) EXCEPT !.minimized = ~minimized])
    /\ NoDrain

Init == InitWith(EditorWindow_new_passes)

Next ==
    \/ EvRedrawRequested
    \/ EvResized
    \/ EvKeyboardInput
    \/ EvMouseInput
    \/ EvCloseRequested
    \/ EvDeviceEvent
    \/ PlatformExpose
    \/ PlatformMinimize

Spec == Init /\ [][Next]_vars

\* winit delivers a redraw request that stays pending; nothing promises
\* that the platform or the user produces any other event
FairSpec == Spec /\ WF_vars(EvRedrawRequested)

Below(A, B) == \A i \in A, j \in B : i < j

\* C2: in every frame handle_redraw completes, the surface texture is
\* acquired before the one command encoder is created, Scene::update runs
\* before the passes execute, the UI overlay draw is encoded after every
\* registered pass has executed, the encoder is submitted once after that,
\* the surface is presented after the submission and the next redraw is
\* requested after the present.
C2_FrameOrder ==
    FrameRendered(trace) =>
        /\ Count(trace, "get_current_texture") = 1
        /\ Count(trace, "create_command_encoder") = 1
        /\ Below(Places(trace, "get_current_texture"),
                 Places(trace, "create_command_encoder"))
        /\ Count(trace, "scene_update") = 1
        /\ Below(Places(trace, "create_command_encoder"),
                 Places(trace, "scene_update"))
        /\ Below(Places(trace, "scene_update"), Places(trace, "execute"))
        /\ Count(trace, "executed") = Len(passes)
        /\ Count(trace, "egui_main_pass") >= 1
        /\ Below(Places(trace, "executed"), Places(trace, "egui_main_pass"))
        /\ Count(trace, "queue_submit") = 1
        /\ Below(Places(trace, "egui_main_pass"), Places(trace, "queue_submit"))
        /\ Count(trace, "present") = 1
        /\ Below(Places(trace, "queue_submit"), Places(trace, "present"))
        /\ Count(trace, "request_redraw") = 1
        /\ Below(Places(trace, "present"), Places(trace, "request_redraw"))
        /\ redraw_requested

\* a frame has been rendered with both passes executed and a key held
C2_Witness ==
    /\ FrameRendered(trace)
    /\ ExecutedNames(trace) = <<"sprite_pass", "egui_pass">>
    /\ Count(trace, "egui_warn_no_begin_frame") = 1
    /\ Count(trace, "camera_process_movement") = 1

\* C5 as stated: the deltas accumulated since the previous rendered frame
\* are applied to the Scene in the next rendered frame, and after each
\* rendered frame every mouse accumulator is zero.
C5_DrainedOncePerFrame ==
    FrameRendered(trace) =>
        /\ ConsumedBy(trace) = acc_drained
        /\ ws_mouse_delta = Zero2
        /\ pending_mouse = Zero2
        /\ scene_mouse_delta = Zero2
        /\ acc_owed = Zero2

\* C8: config.width/height are the dimensions of the most recent resize
\* whose two dimensions were non-zero (the initial ones if there was none),
\* and are never zero, whatever resizes and redraws happened.
C8_ConfigIsLastGoodResize ==
    /\ <<config.width, config.height>> = last_resize
    /\ config.width # 0
    /\ config.height # 0

\* a resize with a zero dimension has followed two different good resizes,
\* and then the Lost recovery path has run
C8_Witness ==
    /\ IsCall(trace, "handle_redraw")
    /\ Count(trace, "surface_configure") = 1
    /\ last_resize = <<1, 2>>

SurfaceErrors == SurfaceResults \ {"Ok"}
SkippedFrame(t) ==
    /\ IsCall(t, "handle_redraw")
    /\ Len(t) >= 2
    /\ t[2].ev = "get_current_texture"
    /\ t[2].s \in SurfaceErrors

\* C9: when acquiring the surface texture fails, the frame is skipped: no
\* encoder is created, nothing is submitted or presented and the
\* configuration keeps its values; on Outdated nothing else happens, on
\* Lost the surface is reconfigured with the configuration's width and
\* height, on OutOfMemory and any other error the condition is logged; the
\* process never terminates.
C9_SurfaceErrorSkipsFrame ==
    [][SkippedFrame(trace') =>
          /\ Count(trace', "create_command_encoder") = 0
          /\ Count(trace', "scene_update") = 0
          /\ Count(trace', "execute") = 0
          /\ Count(trace', "queue_submit") = 0
          /\ Count(trace', "present") = 0
          /\ config' = config
          /\ exited' = exited
          /\ Count(trace', "event_loop_exit") = 0
          /\ (trace'[2].s = "Outdated" => Len(trace') = 2)
          /\ (trace'[2].s = "Lost" =>
                /\ Len(trace') = 3
                /\ trace'[3] = EvD("surface_configure",
                                   <<config.width, config.height>>))
          /\ (trace'[2].s \in {"OutOfMemory", "Timeout"} =>
                /\ Len(trace') = 3
                /\ trace'[3].ev = "eprintln")]_vars

\* a frame has been skipped on a lost surface after a resize
C9_Witness ==
    /\ SkippedFrame(trace)
    /\ trace[2].s = "Lost"
    /\ Count(trace, "surface_configure") = 1
    /\ config = [width |-> 2, height |-> 1]

\* C10 as stated: after a frame skipped for a surface error the redraw
\* loop continues: a later redraw is eventually requested (unless the
\* application was closed).
C10_RedrawLoopContinues ==
    SkippedFrame(trace) ~> (redraw_requested \/ exited)

\* C11: end_frame_and_draw called while no begin_frame is pending does not
\* abort: it reports the misuse and does nothing else (no render pass and
\* no buffer upload is recorded into the encoder, which is left as it was
\* and can still be finished), and frame_started stays false.
C11_EndWithoutBeginIsReported ==
    [][(trace'[1].ev = "end_frame_and_draw" /\ ~frame_started) =>
          /\ trace' = <<Ev("end_frame_and_draw"),
                        Ev("egui_warn_no_begin_frame")>>
          /\ frame_started' = FALSE
          /\ exited' = exited
          /\ passes' = passes]_vars

\* end_frame_and_draw has been called twice for one begin_frame: the
\* second call found no frame pending
C11_Witness ==
    /\ trace = <<Ev("end_frame_and_draw"), Ev("egui_warn_no_begin_frame")>>
    /\ ~frame_started
    /\ passes # <<>>

\* C12 as stated: in every frame driven by handle_redraw, each
\* end_frame_and_draw (made by handle_redraw itself or by a registered
\* EguiPass) finds a frame begun, so the misuse warning is never emitted.
C12_EveryEndHasItsBegin ==
    IsCall(trace, "handle_redraw") =>
        Count(trace, "egui_warn_no_begin_frame") = 0

\* the entries of the effect log with the event, in order
Events(t, e) == SelectSeq(t, LAMBDA x : x.ev = e)

\* C28: set_mouse_capture never fails: it returns nothing, sets the capture
\* flag to the requested value whatever the platform grants, asks for
\* Confined when (and only when) its first grab is denied, goes on when that
\* is denied too, and shows or hides the cursor last.
C28_CaptureIsAdvisory ==
    (Len(trace) > 0 /\ trace[1].ev = "set_mouse_capture") =>
        LET capture == trace[1].s = "true"
            grabs == Events(trace, "set_cursor_grab")
            denied == Events(trace, "cursor_grab_denied")
        IN  /\ ret = Zero2
            /\ ws_mouse_captured = capture
            /\ grabs[1].s = IF capture THEN "Locked" ELSE "None"
            /\ Len(grabs) = IF Len(denied) > 0 THEN 2 ELSE 1
            /\ Len(grabs) = 2 => grabs[2].s = "Confined"
            /\ trace[Len(trace)]
                 = EvS("set_cursor_visible",
                       IF capture THEN "false" ELSE "true")

\* the platform has denied Locked and Confined, and the mouse counts as
\* captured
C28_Witness ==
    /\ Len(trace) > 0
    /\ trace[1] = EvS("set_mouse_capture", "true")
    /\ Events(trace, "cursor_grab_denied")
         = <<EvS("cursor_grab_denied", "Locked"),
             EvS("cursor_grab_denied", "Confined")>>
    /\ ws_mouse_captured

\* the UI overlay consumed the keyboard or pointer-button event of the call
ConsumedInput(t) ==
    /\ IsCall(t, "keyboard_input") \/ IsCall(t, "mouse_input")
    /\ \E i \in 1..Len(t) : t[i] = EvS("egui_handle_input", "consumed")

\* C21: a keyboard or pointer-button window event the UI overlay reports
\* as consumed changes neither the window's pressed keys, nor
\* WindowState.pressed_keys, nor the mouse-capture flag.
C21_ConsumedInputIsSuppressed ==
    [][ConsumedInput(trace') =>
          /\ win_pressed_keys' = win_pressed_keys
          /\ ws_pressed_keys' = ws_pressed_keys
          /\ win_mouse_captured' = win_mouse_captured
          /\ ws_mouse_captured' = ws_mouse_captured]_vars

\* a consumed keyboard event arrived while the mouse was captured and a
\* key was held: unconsumed, it would have changed the keys or the capture
C21_Witness ==
    /\ ConsumedInput(trace)
    /\ IsCall(trace, "keyboard_input")
    /\ win_mouse_captured
    /\ win_pressed_keys # {}

\* --------------------------------------------------------- WindowManager
\* the registry's fields as one record
WM == [windows |-> wm_windows, active |-> wm_active,
       poisoned |-> wm_poisoned, created |-> wm_created,
       panicked |-> panicked, trace |-> trace]

ApplyWM(m) ==
    /\ wm_windows' = m.windows
    /\ wm_active' = m.active
    /\ wm_poisoned' = m.poisoned
    /\ wm_created' = m.created
    /\ panicked' = m.panicked
    /\ trace' = m.trace
    /\ UNCHANGED <<core_vars, sp_vars, fs_vars, cam_vars, key_vars, lock_vars,
                   egui_vars>>

CallWM(m, e) == [m EXCEPT !.trace = <<e>>]

\* Mutex::lock on a window: Ok unless the mutex is poisoned
LockOk(m, id) == id \notin m.poisoned

WindowIds == 1..MaxWindows
Range(q) == {q[i] : i \in DOMAIN q}

\* create_window; W::create or the platform may fail, which returns Err
\* before the registry is touched
WindowManager_create_window(m, ok) ==
    IF ~ok THEN Log(m, Ev("create_window_err"))
    ELSE [m EXCEPT !.windows = Append(@, m.created + 1),
                   !.active = m.created + 1,
                   !.created = @ + 1]

WindowManager_remove_window(m, window_id) ==
    [m EXCEPT !.windows = SelectSeq(@, LAMBDA x : LockOk(m, x) /\ x # window_id)]

WindowManager_set_active_window(m, window) == [m EXCEPT !.active = window]

WindowManager_get_active_window(m) == m.active

\* the first entry that locks and has the id, or None
WindowManager_get_window(m, window_id) ==
    LET found == SelectSeq(m.windows, LAMBDA x : LockOk(m, x) /\ x = window_id)
    IN  IF found = <<>> THEN NoWindow ELSE Head(found)

WindowManager_cleanup_poisoned_windows(m) ==
    [m EXCEPT !.windows = SelectSeq(@, LAMBDA x : LockOk(m, x)),
              !.active = IF @ # NoWindow /\ ~LockOk(m, @) THEN NoWindow ELSE @]

\* the windows that handle_redraw_all redraws, in order
RECURSIVE RedrawFrom(_, _)
RedrawFrom(m, i) ==
    IF i > Len(m.windows) THEN m
    ELSE RedrawFrom(IF LockOk(m, m.windows[i])
                    THEN Log(m, EvD("window_handle_redraw", <<m.windows[i], 0>>))
                    ELSE m,
                    i + 1)

WindowManager_handle_redraw_all(m) == RedrawFrom(m, 1)

WindowManager_handle_window_resized(m, window_id) ==
    LET window == WindowManager_get_window(m, window_id)
    IN  IF window # NoWindow /\ LockOk(m, window)
        THEN Log(m, EvD("window_handle_resized", <<window, 0>>))
        ELSE m

WindowManager_handle_window_redraw(m, window_id) ==
    LET window == WindowManager_get_window(m, window_id)
    IN  IF window # NoWindow /\ LockOk(m, window)
        THEN Log(m, EvD("window_handle_redraw", <<window, 0>>))
        ELSE m

WindowManager_close_all_windows(m) ==
    [m EXCEPT !.windows = <<>>, !.active = NoWindow]

\* position of the first entry that locks and has the id (0: none)
Position(m, id) ==
    LET at == {i \in DOMAIN m.windows :
                    LockOk(m, m.windows[i]) /\ m.windows[i] = id}
    IN  IF at = {} THEN 0 ELSE CHOOSE i \in at : \A j \in at : i <= j

WindowManager_select_next_active_window(m) ==
    IF m.windows = <<>> THEN [m EXCEPT !.active = NoWindow]
    ELSE IF m.active = NoWindow THEN [m EXCEPT !.active = m.windows[1]]
    ELSE IF LockOk(m, m.active) /\ Position(m, m.active) # 0
         THEN [m EXCEPT !.active =
                    m.windows[(Position(m, m.active) % Len(m.windows)) + 1]]
         ELSE m

\* App::window_event up to the dispatch on the event: the window is looked
\* up and locked, and the event is dropped when either fails
App_window_event_route(m, window_id) ==
    LET window == WindowManager_get_window(m, window_id)
    IN  IF window # NoWindow /\ LockOk(m, window)
        THEN Log(m, EvD("window_event", <<window, 0>>))
        ELSE m

\* App::device_event up to the window's device_event: lock().unwrap()
App_device_event_route(m) ==
    IF m.active = NoWindow THEN m
    ELSE IF LockOk(m, m.active)
         THEN Log(m, EvD("window_device_event", <<m.active, 0>>))
         ELSE [Log(m, Ev("panic")) EXCEPT !.panicked = TRUE]

\* ------------------------------------------------ the window-registry machine
\* WindowManager's operations and App's routing of events through it, in
\* any order, while windows' locks get poisoned
WM_CreateWindow ==
    \E ok \in BOOLEAN :
        /\ ~panicked
        /\ wm_created < MaxWindows
        /\ ApplyWM(WindowManager_create_window(
                        CallWM(WM, Ev("create_window")), ok))

WM_RemoveWindow ==
    \E id \in WindowIds :
        /\ ~panicked
        /\ ApplyWM(WindowManager_remove_window(
                        CallWM(WM, EvD("remove_window", <<id, 0>>)), id))

\* the caller passes a window it was given by create_window
WM_SetActiveWindow ==
    \E id \in 1..wm_created :
        /\ ~panicked
        /\ ApplyWM(WindowManager_set_active_window(
                        CallWM(WM, EvD("set_active_window", <<id, 0>>)), id))

WM_CleanupPoisonedWindows ==
    /\ ~panicked
    /\ ApplyWM(WindowManager_cleanup_poisoned_windows(
                    CallWM(WM, Ev("cleanup_poisoned_windows"))))

WM_SelectNextActiveWindow ==
    /\ ~panicked
    /\ ApplyWM(WindowManager_select_next_active_window(
                    CallWM(WM, Ev("select_next_active_window"))))

WM_CloseAllWindows ==
    /\ ~panicked
    /\ ApplyWM(WindowManager_close_all_windows(
                    CallWM(WM, Ev("close_all_windows"))))

WM_HandleRedrawAll ==
    /\ ~panicked
    /\ ApplyWM(WindowManager_handle_redraw_all(
                    CallWM(WM, Ev("handle_redraw_all"))))

WM_HandleWindowResized ==
    \E id \in WindowIds :
        /\ ~panicked
        /\ ApplyWM(WindowManager_handle_window_resized(
                        CallWM(WM, EvD("handle_window_resized", <<id, 0>>)), id))

WM_HandleWindowRedraw ==
    \E id \in WindowIds :
        /\ ~panicked
        /\ ApplyWM(WindowManager_handle_window_redraw(
                        CallWM(WM, EvD("handle_window_redraw", <<id, 0>>)), id))

WM_WindowEvent ==
    \E id \in WindowIds :
        /\ ~panicked
        /\ ApplyWM(App_window_event_route(
                        CallWM(WM, EvD("app_window_event", <<id, 0>>)), id))

WM_DeviceEvent ==
    /\ ~panicked
    /\ ApplyWM(App_device_event_route(CallWM(WM, Ev("app_device_event"))))

\* a panic while a window's lock was held leaves its Mutex poisoned
WM_Poison ==
    \E id \in 1..wm_created :
        /\ ~panicked
        /\ id \notin wm_poisoned
        /\ ApplyWM([CallWM(WM, EvD("poison", <<id, 0>>))
                        EXCEPT !.poisoned = @ \cup {id}])

InitWM == InitWith(PassManager_new)

NextWM ==
    \/ WM_CreateWindow
    \/ WM_RemoveWindow
    \/ WM_SetActiveWindow
    \/ WM_CleanupPoisonedWindows
    \/ WM_SelectNextActiveWindow
    \/ WM_CloseAllWindows
    \/ WM_HandleRedrawAll
    \/ WM_HandleWindowResized
    \/ WM_HandleWindowRedraw
    \/ WM_WindowEvent
    \/ WM_DeviceEvent
    \/ WM_Poison

SpecWM == InitWM /\ [][NextWM]_vars

\* C13 as stated: after any sequence of WindowManager operations the
\* active window is None or an entry of the windows registry.
C13_ActiveWindowIsRegistered ==
    wm_active = NoWindow \/ wm_active \in Range(wm_windows)

\* C14 as stated: no WindowManager operation and no event-routing path
\* that meets a poisoned window lock panics; the poisoned entry is skipped
\* or pruned.
C14_PoisonedLockNeverPanics == ~panicked

\* ------------------------------------------------------------- SpritePass
\* textures a sprite can be made from
Textures == {"atlas", "tiles", "font"}

\* the sprite pass's fields as one record
SP == [sprites |-> sp_sprites, trace |-> trace]

ApplySP(sp) ==
    /\ sp_sprites' = sp.sprites
    /\ trace' = sp.trace
    /\ UNCHANGED <<core_vars, wm_vars, fs_vars, cam_vars, key_vars, lock_vars,
                   egui_vars>>

CallSP(sp, e) == [sp EXCEPT !.trace = <<e>>]

Min(a, b) == IF a <= b THEN a ELSE b

\* add_sprite makes a bind group for the sprite and stores both
SpritePass_add_sprite(sp, texture) == [sp EXCEPT !.sprites = Append(@, texture)]

\* the grouping key is the sprite's texture
BindGroupKey_of_texture(sp, i) == sp.sprites[i]

\* the grouping key of sprite i: the address of the bind group stored in
\* the i-th element of `sprites`, which no other element shares
BindGroupKey(sp, i) == i

\* groups: key -> the indices pushed under it, in increasing order
GroupKeys(sp) == {BindGroupKey(sp, i) : i \in DOMAIN sp.sprites}
GroupIndices(sp, key) == {i \in DOMAIN sp.sprites : BindGroupKey(sp, i) = key}
FirstIndex(sp, key) ==
    CHOOSE i \in GroupIndices(sp, key) : \A j \in GroupIndices(sp, key) : i <= j

\* SpriteRenderer::draw_instanced: binds, and draws unless the count is 0
SpriteRenderer_draw_instanced(sp, bind_group, instance_count) ==
    LET sp1 == Log(sp, EvD("draw_instanced", <<bind_group, instance_count>>))
    IN  IF instance_count = 0 THEN sp1
        ELSE Log(sp1, EvD("draw_indexed", <<bind_group, instance_count>>))

\* the whole instance buffer is drawn
DrawGroup_whole_buffer(sp, key) ==
    LET len == Cardinality(GroupIndices(sp, key))
        sp1 == IF len > instance_capacity
               THEN Log(sp, EvD("warn_clipping", <<len, instance_capacity>>))
               ELSE sp
        sp2 == Log(sp1, EvD("queue_write_buffer",
                            <<0, Min(len, instance_capacity)>>))
    IN  SpriteRenderer_draw_instanced(sp2, FirstIndex(sp, key),
                                      instance_capacity)

\* the body of execute's loop over the groups
DrawGroup(sp, key) ==
    LET len == Cardinality(GroupIndices(sp, key))
        sp1 == IF len > instance_capacity
               THEN Log(sp, EvD("warn_clipping", <<len, instance_capacity>>))
               ELSE sp
        sp2 == Log(sp1, EvD("queue_write_buffer",
                            <<0, Min(len, instance_capacity)>>))
    IN  SpriteRenderer_draw_instanced(sp2, FirstIndex(sp, key),
                                      Min(len, instance_capacity))

RECURSIVE DrawGroupsFrom(_, _, _)
DrawGroupsFrom(sp, order, i) ==
    IF i > Len(order) THEN sp
    ELSE DrawGroupsFrom(DrawGroup(sp, order[i]), order, i + 1)

\* SpritePass::execute; order is the order in which the HashMap yields the
\* groups
SpritePass_execute_groups(sp, order) ==
    DrawGroupsFrom(Log(Log(sp, Ev("update_transform")),
                       Ev("sprite_render_pass")),
                   order, 1)

\* the orders in which a HashMap with these keys can be iterated
Orders(keys) ==
    {o \in [1..Cardinality(keys) -> keys] : \A k \in keys : \E i \in DOMAIN o : o[i] = k}

\* ---------------------------------------------------- the sprite-pass machine
SP_AddSprite ==
    \E texture \in Textures :
        /\ Len(sp_sprites) < MaxSprites
        /\ ApplySP(SpritePass_add_sprite(
                        CallSP(SP, EvS("add_sprite", texture)), texture))

SP_Execute ==
    \E order \in Orders(GroupKeys(SP)) :
        ApplySP(SpritePass_execute_groups(CallSP(SP, Ev("sprite_execute")), order))

InitSP == InitWith(PassManager_new)

NextSP == SP_AddSprite \/ SP_Execute

SpecSP == InitSP /\ [][NextSP]_vars

\* C15 as stated: with N >= 1 sprites registered that all share one
\* texture, N not above the instance capacity, one execute issues exactly
\* one instanced draw call, and its instance count is N.
C15_OneDrawForOneTexture ==
    (/\ IsCall(trace, "sprite_execute")
     /\ sp_sprites # <<>>
     /\ Len(sp_sprites) <= instance_capacity
     /\ \A i \in DOMAIN sp_sprites : sp_sprites[i] = sp_sprites[1]) =>
        /\ Count(trace, "draw_instanced") = 1
        /\ \A i \in Places(trace, "draw_instanced") :
                trace[i].d[2] = Len(sp_sprites)

V == [mounts |-> fs_mounts, created |-> fs_created, files |-> fs_files,
      writes |-> fs_writes, ret |-> fs_ret, trace |-> trace]

ApplyV(v, call) ==
    /\ fs_mounts' = v.mounts
    /\ fs_created' = v.created
    /\ fs_files' = v.files
    /\ fs_writes' = v.writes
    /\ fs_ret' = v.ret
    /\ fs_call' = call
    /\ trace' = v.trace
    /\ UNCHANGED <<core_vars, wm_vars, sp_vars, cam_vars, key_vars, lock_vars,
                   egui_vars>>

CallV(v, e) == [v EXCEPT !.trace = <<e>>, !.ret = Unit]

\* Path::starts_with: whole components
StartsWith(path, prefix) ==
    /\ Len(prefix) <= Len(path)
    /\ SubSeq(path, 1, Len(prefix)) = prefix

\* Path::strip_prefix(..).unwrap_or("")
StripPrefix(path, prefix) ==
    IF StartsWith(path, prefix)
    THEN SubSeq(path, Len(prefix) + 1, Len(path))
    ELSE <<>>

Mount_matches(m, path) ==
    IF m.prefix = <<>> THEN TRUE ELSE StartsWith(path, m.prefix)

Mount_relative_path(m, path) ==
    IF m.prefix = <<>> THEN path ELSE StripPrefix(path, m.prefix)

\* Ofs: the operations on one filesystem; a file that is not there makes
\* a read fail, and the operating system may refuse a write
Ofs_read_bytes(v, fs, rel) ==
    IF rel \in RelPaths /\ v.files[fs][rel] # <<>>
    THEN [v EXCEPT !.ret = Ok(v.files[fs][rel])]
    ELSE [v EXCEPT !.ret = Err("io")]

Ofs_exists(v, fs, rel) == rel \in RelPaths /\ v.files[fs][rel] # <<>>

\* the write reports success and stores nothing
Ofs_write_bytes_dropped(v, fs, rel, data, io_ok) ==
    IF io_ok /\ rel \in RelPaths
    THEN [Log(v, EvD("fs_write", <<fs, data>>)) EXCEPT !.ret = Unit]
    ELSE [v EXCEPT !.ret = Err("io")]

Ofs_write_bytes(v, fs, rel, data, io_ok) ==
    IF io_ok /\ rel \in RelPaths
    THEN [Log(v, EvD("fs_write", <<fs, data>>))
            EXCEPT !.files[fs][rel] = <<data>>, !.ret = Unit]
    ELSE [v EXCEPT !.ret = Err("io")]

\* mount makes the Mount and pushes it; the filesystem is a new one
Vfs_mount(v, prefix, writable) ==
    [v EXCEPT !.mounts = Append(@, [prefix |-> prefix, fs |-> v.created + 1,
                                    writable |-> writable]),
              !.created = @ + 1]

\* only the most recent mount of the prefix is removed
Vfs_unmount_latest(v, prefix) ==
    LET at == {i \in DOMAIN v.mounts : v.mounts[i].prefix = prefix}
    IN  IF at = {} THEN v
        ELSE LET top == CHOOSE i \in at : \A j \in at : j <= i
             IN  [Log(v, EvD("mount_dropped", <<v.mounts[top].fs, 0>>))
                    EXCEPT !.mounts = SubSeq(@, 1, top - 1)
                                        \o SubSeq(@, top + 1, Len(@))]

\* every mount under the prefix is removed
Vfs_unmount_under(v, prefix) ==
    LET dropped == SelectSeq(v.mounts, LAMBDA m : StartsWith(m.prefix, prefix))
    IN  [v EXCEPT !.mounts = SelectSeq(@, LAMBDA m :
                                            ~StartsWith(m.prefix, prefix)),
                  !.trace = @ \o [k \in 1..Len(dropped) |->
                                    EvD("mount_dropped", <<dropped[k].fs, 0>>)]]

\* `retain` keeps, in order, the mounts whose prefix is not the one given;
\* the others are dropped
Vfs_unmount(v, prefix) ==
    LET dropped == SelectSeq(v.mounts, LAMBDA m : m.prefix = prefix)
    IN  [v EXCEPT !.mounts = SelectSeq(@, LAMBDA m : m.prefix # prefix),
                  !.trace = @ \o [k \in 1..Len(dropped) |->
                                    EvD("mount_dropped", <<dropped[k].fs, 0>>)]]

\* the index of the mount the scan from the oldest mount meets first
RECURSIVE ScanUp(_, _, _)
ScanUp(v, path, i) ==
    IF i > Len(v.mounts) THEN 0
    ELSE IF Mount_matches(v.mounts[i], path) THEN i
    ELSE ScanUp(v, path, i + 1)

Vfs_resolve_mount_for_oldest(v, path) == ScanUp(v, path, 1)

\* mounts.iter().rev(): the index of the first mount that matches, scanning
\* from the most recent one (0: None)
RECURSIVE ScanDown(_, _, _)
ScanDown(v, path, i) ==
    IF i < 1 THEN 0
    ELSE IF Mount_matches(v.mounts[i], path) THEN i
    ELSE ScanDown(v, path, i - 1)

\* the first mount, from the most recent one, that matches and holds the
\* file: a mount without it lets the search fall through to an earlier one
RECURSIVE ScanDownHolding(_, _, _)
ScanDownHolding(v, path, i) ==
    IF i < 1 THEN ScanDown(v, path, Len(v.mounts))
    ELSE IF /\ Mount_matches(v.mounts[i], path)
            /\ Ofs_exists(v, v.mounts[i].fs,
                          Mount_relative_path(v.mounts[i], path))
         THEN i
    ELSE ScanDownHolding(v, path, i - 1)

Vfs_resolve_mount_for_holding(v, path) ==
    ScanDownHolding(v, path, Len(v.mounts))

Vfs_resolve_mount_for(v, path) == ScanDown(v, path, Len(v.mounts))

Vfs_read_bytes(v, path) ==
    LET i == Vfs_resolve_mount_for(v, path)
    IN  IF i # 0
        THEN Ofs_read_bytes(v, v.mounts[i].fs,
                            Mount_relative_path(v.mounts[i], path))
        ELSE [v EXCEPT !.ret = Err("no mount found")]

Vfs_read_to_string(v, path) ==
    LET i == Vfs_resolve_mount_for(v, path)
    IN  IF i # 0
        THEN Ofs_read_bytes(v, v.mounts[i].fs,
                            Mount_relative_path(v.mounts[i], path))
        ELSE [v EXCEPT !.ret = Err("no mount found")]

Vfs_exists(v, path) ==
    LET i == Vfs_resolve_mount_for(v, path)
    IN  IF i # 0
        THEN [v EXCEPT !.ret.ok =
                Ofs_exists(v, v.mounts[i].fs,
                           Mount_relative_path(v.mounts[i], path))]
        ELSE [v EXCEPT !.ret.ok = FALSE]

\* the index of the first mount, from the most recent one, that matches
\* and is writable (0: none)
RECURSIVE ScanDownWritable(_, _, _)
ScanDownWritable(v, path, i) ==
    IF i < 1 THEN 0
    ELSE IF Mount_matches(v.mounts[i], path) /\ v.mounts[i].writable THEN i
    ELSE ScanDownWritable(v, path, i - 1)

\* the write goes to the mount a read resolves to, writable or not
Vfs_write_bytes_to_resolved(v, path, data, io_ok) ==
    LET i == Vfs_resolve_mount_for(v, path)
    IN  IF i # 0
        THEN Ofs_write_bytes(v, v.mounts[i].fs,
                             Mount_relative_path(v.mounts[i], path), data, io_ok)
        ELSE [v EXCEPT !.ret = Err("no writable mount found")]

Vfs_write_bytes(v, path, data, io_ok) ==
    LET i == ScanDownWritable(v, path, Len(v.mounts))
    IN  IF i # 0
        THEN Ofs_write_bytes(v, v.mounts[i].fs,
                             Mount_relative_path(v.mounts[i], path), data, io_ok)
        ELSE [v EXCEPT !.ret = Err("no writable mount found")]

\* ------------------------------------------------------------ the Vfs machine
FS_Mount ==
    \E prefix \in Prefixes, writable \in BOOLEAN :
        /\ fs_created < MaxMounts
        /\ ApplyV(Vfs_mount(CallV(V, Ev("mount")), prefix, writable),
                  [op |-> "mount", path |-> prefix, data |-> <<>>])

FS_Unmount ==
    \E prefix \in Prefixes :
        ApplyV(Vfs_unmount(CallV(V, Ev("unmount")), prefix),
               [op |-> "unmount", path |-> prefix, data |-> <<>>])

FS_ReadBytes ==
    \E path \in Paths :
        ApplyV(Vfs_read_bytes(CallV(V, Ev("read_bytes")), path),
               [op |-> "read_bytes", path |-> path, data |-> <<>>])

FS_ReadToString ==
    \E path \in Paths :
        ApplyV(Vfs_read_to_string(CallV(V, Ev("read_to_string")), path),
               [op |-> "read_to_string", path |-> path, data |-> <<>>])

FS_Exists ==
    \E path \in Paths :
        ApplyV(Vfs_exists(CallV(V, Ev("exists")), path),
               [op |-> "exists", path |-> path, data |-> <<>>])

FS_WriteBytes ==
    \E path \in Paths, data \in WriteData, io_ok \in BOOLEAN :
        /\ fs_writes < MaxWrites
        /\ ApplyV([Vfs_write_bytes(CallV(V, Ev("write_bytes")), path, data, io_ok)
                        EXCEPT !.writes = @ + 1],
                  [op |-> "write_bytes", path |-> path, data |-> <<data>>])

InitFS == InitWith(PassManager_new)

NextFS ==
    \/ FS_Mount
    \/ FS_Unmount
    \/ FS_ReadBytes
    \/ FS_ReadToString
    \/ FS_Exists
    \/ FS_WriteBytes

SpecFS == InitFS /\ [][NextFS]_vars

\* the mounts of a list whose prefix is a whole-component prefix of path
Matching(mounts, path) ==
    {i \in DOMAIN mounts : StartsWith(path, mounts[i].prefix)}
\* the largest element of a non-empty set of indices
Last(S) == CHOOSE i \in S : \A j \in S : j <= i
\* the file a path names in mount m
FileIn(files, m, path) ==
    files[m.fs][SubSeq(path, Len(m.prefix) + 1, Len(path))]

\* C17: a read of a path (read_bytes, read_to_string, exists) resolves to
\* the most recently mounted mount whose prefix matches the path: it
\* returns that mount's file (for exists: whether that mount has it), also
\* when an earlier mount on the same prefix has the file.
C17_ReadResolvesToLatestMount ==
    [][(fs_call'.op \in {"read_bytes", "read_to_string", "exists"}
            /\ Matching(fs_mounts, fs_call'.path) # {}) =>
          LET m == fs_mounts[Last(Matching(fs_mounts, fs_call'.path))]
              file == FileIn(fs_files, m, fs_call'.path)
          IN  /\ fs_call'.op = "exists" => fs_ret' = [Unit EXCEPT !.ok = file # <<>>]
              /\ (fs_call'.op # "exists" /\ file # <<>>) => fs_ret' = Ok(file)
              /\ (fs_call'.op # "exists" /\ file = <<>>) => fs_ret' = Err("io")
              /\ fs_mounts' = fs_mounts
              /\ fs_files' = fs_files]_vars

\* with two mounts on prefix "x", a read of "x/f" has returned the content
\* of the second one
C17_Witness ==
    /\ fs_call = [op |-> "read_to_string", path |-> <<"x", "f">>, data |-> <<>>]
    /\ Len(fs_mounts) = 2
    /\ fs_mounts[1].prefix = <<"x">>
    /\ fs_mounts[2].prefix = <<"x">>
    /\ fs_ret = Ok(<<fs_mounts[2].fs>>)

\* C18 as stated: with mounts [A (prefix "x"), B (prefix "x")], after B is
\* unmounted a read of "x/f" resolves to A (and so returns A's content).
C18_UnmountReexposesEarlierMount ==
    [][(/\ fs_call'.op = "unmount"
        /\ fs_call'.path = <<"x">>
        /\ Len(fs_mounts) = 2
        /\ fs_mounts[1].prefix = <<"x">>
        /\ fs_mounts[2].prefix = <<"x">>) =>
          /\ Matching(fs_mounts', <<"x", "f">>) # {}
          /\ fs_mounts'[Last(Matching(fs_mounts', <<"x", "f">>))] = fs_mounts[1]]_vars

\* C18, amended: unmount(p) removes every mount whose prefix is p, so with
\* mounts [A (prefix "x"), B (prefix "x")] it removes A together with B;
\* afterwards a path resolves to the most recent of the other mounts that
\* match it (an earlier mount of another prefix is re-exposed), or to none,
\* and no filesystem has changed.
C18_UnmountRemovesWholePrefix ==
    [][fs_call'.op = "unmount" =>
          /\ \A i \in DOMAIN fs_mounts' : fs_mounts'[i].prefix # fs_call'.path
          /\ \A path \in Paths :
                LET others == {i \in Matching(fs_mounts, path) :
                                    fs_mounts[i].prefix # fs_call'.path}
                IN  IF others = {}
                    THEN Matching(fs_mounts', path) = {}
                    ELSE /\ Matching(fs_mounts', path) # {}
                         /\ fs_mounts'[Last(Matching(fs_mounts', path))]
                                = fs_mounts[Last(others)]
          /\ fs_files' = fs_files]_vars

\* two mounts of prefix "x" have been unmounted together and the catch-all
\* mount made before them is what is left
C18_Witness ==
    /\ fs_call = [op |-> "unmount", path |-> <<"x">>, data |-> <<>>]
    /\ Count(trace, "mount_dropped") = 2
    /\ Len(fs_mounts) = 1
    /\ fs_mounts[1].prefix = <<>>
    /\ fs_mounts[1].fs = 1

\* the mounts of the list whose prefix is not the given one, in order
Others(mounts, prefix) == SelectSeq(mounts, LAMBDA m : m.prefix # prefix)

\* C30: unmount(prefix) removes every mount whose prefix equals the given
\* one and nothing else: what is left is the mounts of any other prefix,
\* those under the given prefix and the catch-all included, in the order
\* they had, with the filesystem and the writable flag they had.
C30_UnmountRemovesExactPrefixOnly ==
    [][fs_call'.op = "unmount" =>
          /\ fs_mounts' = Others(fs_mounts, fs_call'.path)
          /\ \A i \in DOMAIN fs_mounts :
                fs_mounts[i].prefix # fs_call'.path =>
                    Cardinality({j \in DOMAIN fs_mounts' :
                                    fs_mounts'[j] = fs_mounts[i]}) = 1
          /\ \A j \in DOMAIN fs_mounts' :
                /\ fs_mounts'[j].prefix # fs_call'.path
                /\ \E i \in DOMAIN fs_mounts : fs_mounts[i] = fs_mounts'[j]
          /\ \A j, k \in DOMAIN fs_mounts' :
                j < k => fs_mounts'[j].fs < fs_mounts'[k].fs
          /\ fs_files' = fs_files]_vars

\* the catch-all has been unmounted from between two mounts of "x", which
\* are still there in their order
C30_Witness ==
    /\ fs_call = [op |-> "unmount", path |-> <<>>, data |-> <<>>]
    /\ Count(trace, "mount_dropped") = 1
    /\ Len(fs_mounts) = 2
    /\ fs_mounts[1].prefix = <<"x">>
    /\ fs_mounts[2].prefix = <<"x">>
    /\ fs_mounts[1].fs = 1
    /\ fs_mounts[2].fs = 3

\* C19: write_bytes writes to the most recently mounted mount that both
\* matches the path and is writable, skipping the read-only mounts above
\* it: that filesystem's file gets the data (unless the operating system
\* refuses the write) and no other file of any filesystem changes.
C19_WriteGoesToFirstWritableMount ==
    [][(fs_call'.op = "write_bytes"
            /\ \E i \in Matching(fs_mounts, fs_call'.path) : fs_mounts[i].writable) =>
          LET m == fs_mounts[Last({i \in Matching(fs_mounts, fs_call'.path) :
                                        fs_mounts[i].writable})]
              rel == SubSeq(fs_call'.path, Len(m.prefix) + 1, Len(fs_call'.path))
          IN  /\ fs_ret' \in {Unit, Err("io")}
              /\ fs_ret'.ok =>
                    fs_files' = [fs_files EXCEPT ![m.fs][rel] = fs_call'.data]
              /\ ~fs_ret'.ok => fs_files' = fs_files
              /\ fs_mounts' = fs_mounts]_vars

\* a write has gone to the writable catch-all mount under a read-only
\* mount of prefix "x" that also matches the path
C19_Witness ==
    /\ fs_call = [op |-> "write_bytes", path |-> <<"x", "f">>, data |-> <<0>>]
    /\ fs_ret = Unit
    /\ Len(fs_mounts) = 2
    /\ fs_mounts[1] = [prefix |-> <<>>, fs |-> 1, writable |-> TRUE]
    /\ fs_mounts[2] = [prefix |-> <<"x">>, fs |-> 2, writable |-> FALSE]
    /\ fs_files[1][<<"x", "f">>] = <<0>>
    /\ fs_files[2][<<"f">>] = <<2>>

\* C20 as stated: a read or write of a path that matches no mount returns
\* the not-found error; a write of a path matched only by read-only mounts
\* returns another error; neither changes a filesystem or the mount list.
C20_NotFoundAndReadOnlyErrors ==
    [][/\ (fs_call'.op \in {"read_bytes", "read_to_string", "write_bytes"}
                /\ Matching(fs_mounts, fs_call'.path) = {}) =>
              /\ fs_ret' = Err("no mount found")
              /\ fs_files' = fs_files
              /\ fs_mounts' = fs_mounts
       /\ (fs_call'.op = "write_bytes"
                /\ Matching(fs_mounts, fs_call'.path) # {}
                /\ \A i \in Matching(fs_mounts, fs_call'.path) :
                        ~fs_mounts[i].writable) =>
              /\ ~fs_ret'.ok
              /\ fs_ret' # Err("no mount found")
              /\ fs_files' = fs_files
              /\ fs_mounts' = fs_mounts]_vars

\* ---------------------------------------------------------------- Camera2D
\* the camera's fields as one record; ret is what a call returns
CAM == [position |-> cam_position, zoom |-> cam_zoom, speed |-> cam_speed,
        viewport |-> cam_viewport, ret |-> cam_ret]

ApplyCam(c, call) ==
    /\ cam_position' = c.position
    /\ cam_zoom' = c.zoom
    /\ cam_speed' = c.speed
    /\ cam_viewport' = c.viewport
    /\ cam_ret' = c.ret
    /\ cam_call' = call
    /\ cam_before' = cam_position
    /\ UNCHANGED <<core_vars, trace, wm_vars, sp_vars, fs_vars, key_vars, lock_vars,
                   egui_vars>>

CameraMovement2D == {"Up", "Down", "Left", "Right"}

Camera2D_translate(c, dx, dy) ==
    [c EXCEPT !.position = <<FAdd(@[1], dx), FAdd(@[2], dy)>>]

Camera2D_process_movement_up_is_down(c, direction, dt) ==
    LET velocity == FMul(c.speed, dt)
    IN  CASE direction = "Up" ->
                [c EXCEPT !.position[2] = FAdd(@, velocity)]
          [] direction = "Down" ->
                [c EXCEPT !.position[2] = FAdd(@, velocity)]
          [] direction = "Left" ->
                [c EXCEPT !.position[1] = FSub(@, velocity)]
          [] direction = "Right" ->
                [c EXCEPT !.position[1] = FAdd(@, velocity)]

Camera2D_process_movement(c, direction, dt) ==
    LET velocity == FMul(c.speed, dt)
    IN  CASE direction = "Up" ->
                [c EXCEPT !.position[2] = FSub(@, velocity)]
          [] direction = "Down" ->
                [c EXCEPT !.position[2] = FAdd(@, velocity)]
          [] direction = "Left" ->
                [c EXCEPT !.position[1] = FSub(@, velocity)]
          [] direction = "Right" ->
                [c EXCEPT !.position[1] = FAdd(@, velocity)]

Camera2D_set_zoom_unclamped(c, zoom) == [c EXCEPT !.zoom = zoom]

Camera2D_set_zoom(c, zoom) == [c EXCEPT !.zoom = FMax(zoom, F32(1, 10))]

Camera2D_zoom_by(c, delta) ==
    [c EXCEPT !.zoom = FMax(FAdd(@, delta), F32(1, 10))]

Camera2D_set_viewport_size(c, width, height) ==
    [c EXCEPT !.viewport = <<width, height>>]

Camera2D_screen_to_world_times_zoom(c, screen_x, screen_y) ==
    [c EXCEPT !.ret = <<FAdd(FMul(screen_x, c.zoom), c.position[1]),
                        FAdd(FMul(screen_y, c.zoom), c.position[2])>>]

Camera2D_screen_to_world(c, screen_x, screen_y) ==
    [c EXCEPT !.ret = <<FAdd(FDiv(screen_x, c.zoom), c.position[1]),
                        FAdd(FDiv(screen_y, c.zoom), c.position[2])>>]

Camera2D_world_to_screen(c, world_x, world_y) ==
    [c EXCEPT !.ret = <<FMul(FSub(world_x, c.position[1]), c.zoom),
                        FMul(FSub(world_y, c.position[2]), c.zoom)>>]

\* ------------------------------------------------- the camera-zoom machine
\* zoom adjustments on a newly constructed camera
CAM_SetZoom ==
    \E zoom \in F32Values :
        ApplyCam(Camera2D_set_zoom(CAM, zoom),
                 [op |-> "set_zoom", args |-> <<zoom>>])

CAM_ZoomBy ==
    \E delta \in F32Values :
        ApplyCam(Camera2D_zoom_by(CAM, delta),
                 [op |-> "zoom_by", args |-> <<delta>>])

InitZoom == InitWith(<<>>)

NextZoom ==
    \/ CAM_SetZoom
    \/ CAM_ZoomBy

SpecZoom == InitZoom /\ [][NextZoom]_vars

\* C22: after any sequence of set_zoom and zoom_by calls on a newly
\* constructed camera, with arguments of any sign or magnitude (the
\* infinities and NaN among them), the zoom is at least 0.1: never zero,
\* negative or NaN.
C22_ZoomAtLeastTenth ==
    /\ FLe(F32(1, 10), cam_zoom)
    /\ FLt(Fin(0), cam_zoom)

\* a zoom adjustment whose argument alone would leave the zoom below 0.1
\* (or NaN) has been clamped
C22_Witness ==
    /\ cam_call.op \in {"set_zoom", "zoom_by"}
    /\ ~FLe(Fin(0), cam_call.args[1])
    /\ cam_zoom = F32(1, 10)


\* ------------------------------------------- the camera-conversion machine
\* a camera constructed anywhere and zoomed converts a point there and
\* back.  The second coordinate of a position or point is the first's
\* negation, so that each coordinate goes through every value.  The
\* conversions take &self: they leave the camera as it is, so that one
\* conversion of each camera shows all there is.
Mirror(a) == <<a, FNeg(a)>>

\* the points converted: zero, the least quantum, values about 1.0, the
\* largest finite value, their negations, an infinity and NaN
SamplePoints ==
    {Fin(s * v) : s \in {-1, 1},
                  v \in {0, 1, 3, One, One + Pow2(FracBits - 1), 3 * One,
                         Pow2(MaxExp), MaxFinite}}
        \cup {PosInf, NaN}

\* screen_to_world(world_to_screen(p)); the call's record keeps p and the
\* screen point in between
CAM_WorldToScreenAndBack ==
    \E b \in SamplePoints :
        /\ cam_call = NoCamCall
        /\ \E s \in {Camera2D_world_to_screen(CAM, b, FNeg(b)).ret} :
               ApplyCam(Camera2D_screen_to_world(CAM, s[1], s[2]),
                        [op |-> "world_to_screen_to_world",
                         args |-> Mirror(b) \o s])

\* world_to_screen(screen_to_world(s)); the call's record keeps s and the
\* world point in between
CAM_ScreenToWorldAndBack ==
    \E b \in SamplePoints :
        /\ cam_call = NoCamCall
        /\ \E p \in {Camera2D_screen_to_world(CAM, b, FNeg(b)).ret} :
               ApplyCam(Camera2D_world_to_screen(CAM, p[1], p[2]),
                        [op |-> "screen_to_world_to_screen",
                         args |-> Mirror(b) \o p])

InitRT ==
    \E a \in F32Values, zoom \in F32Values :
        InitWithCamera(<<>>,
            Camera2D_set_zoom(
                Camera2D_new_centered(a, FNeg(a), INITIAL_WIDTH,
                                      INITIAL_HEIGHT), zoom))

NextRT ==
    \/ CAM_WorldToScreenAndBack
    \/ CAM_ScreenToWorldAndBack

SpecRT == InitRT /\ [][NextRT]_vars

\* the quantum (unit in the last place) of the format at magnitude v quanta
Ulp(v) ==
    Pow2(CHOOSE k \in 0..MaxExp :
            /\ Abs(v) < Pow2(MantBits + k)
            /\ \A j \in 0..(k - 1) : Abs(v) >= Pow2(MantBits + j))

MaxAbs(a, b) == IF Abs(a) < Abs(b) THEN Abs(b) ELSE Abs(a)

\* r is within tol quanta-at-magnitude-scale of the finite value p
Within(r, p, scale, tol) ==
    IsFinite(r) /\ Abs(r.v - p.v) <= tol * Ulp(scale)


\* x is a normal value of the format: finite, no subnormal and not zero
IsNormal(x) == IsFinite(x) /\ Abs(x.v) >= Pow2(MantBits - 1)

\* the camera is at a finite position with a finite zoom, and the most
\* recent call converted the finite point cam_call.args[i] there and back
ConvertedThereAndBack(op, i) ==
    /\ cam_call.op = op
    /\ IsFinite(cam_position[i])
    /\ IsFinite(cam_zoom)
    /\ IsFinite(cam_call.args[i])

\* coordinate i of the world point p came back within 8 units in the last
\* place of the larger of |p| and |position|
WorldCameBack(i) ==
    Within(cam_ret[i], cam_call.args[i],
           MaxAbs(cam_call.args[i].v, cam_position[i].v), 8)

\* coordinate i of the screen point s came back within zoom times 8 units
\* in the last place of the larger of |position| and the world point in
\* between
ScreenCameBack(i) ==
    /\ IsFinite(cam_ret[i])
    /\ IsFinite(cam_call.args[i + 2])
    /\ Abs(cam_ret[i].v - cam_call.args[i].v) * One <=
           8 * Ulp(MaxAbs(cam_call.args[i + 2].v, cam_position[i].v))
             * cam_zoom.v

\* C23 as stated: for every camera position and zoom > 0 and every point,
\* screen_to_world(world_to_screen(p)) is p and
\* world_to_screen(screen_to_world(s)) is s, up to arithmetic tolerance.
C23_RoundTripForEveryPoint ==
    \A i \in {1, 2} :
        /\ ConvertedThereAndBack("world_to_screen_to_world", i)
              => WorldCameBack(i)
        /\ ConvertedThereAndBack("screen_to_world_to_screen", i)
              => ScreenCameBack(i)

\* the operation's result is exact: finite and not rounded
ExactAdd(x, y) ==
    IsFinite(x) /\ IsFinite(y) /\ x.v + y.v \in FiniteValues
ExactSub(x, y) ==
    IsFinite(x) /\ IsFinite(y) /\ x.v - y.v \in FiniteValues
ExactMul(x, y) ==
    /\ IsFinite(x) /\ IsFinite(y)
    /\ Abs(x.v * y.v) % One = 0
    /\ Sign(x.v * y.v) * (Abs(x.v * y.v) \div One) \in FiniteValues
ExactDiv(x, y) ==
    /\ IsFinite(x) /\ IsFinite(y) /\ y.v # 0
    /\ (Abs(x.v) * One) % Abs(y.v) = 0
    /\ (Abs(x.v) * One) \div Abs(y.v) \in FiniteValues

\* C23, amended: a round trip returns the point exactly when the results
\* of its first two operations are exact (p - position and its product with
\* zoom; s / zoom and its sum with position), and up to the tolerance when
\* no result on the way, the last included, overflows and no product or
\* quotient underflows (each is finite, and normal or an exact zero).
C23_RoundTripWithinRange ==
    \A i \in {1, 2} :
        /\ ( /\ ConvertedThereAndBack("world_to_screen_to_world", i)
             /\ LET s == cam_call.args[i + 2]
                IN  \/ IsNormal(s)
                    \/ s = Fin(0) /\ cam_call.args[i] = cam_position[i]
             /\ IsFinite(cam_ret[i]) )
              => WorldCameBack(i)
        /\ ( /\ ConvertedThereAndBack("world_to_screen_to_world", i)
             /\ ExactSub(cam_call.args[i], cam_position[i])
             /\ ExactMul(FSub(cam_call.args[i], cam_position[i]), cam_zoom) )
              => cam_ret[i] = cam_call.args[i]
        /\ ( /\ ConvertedThereAndBack("screen_to_world_to_screen", i)
             /\ LET q == FDiv(cam_call.args[i], cam_zoom)
                IN  IsNormal(q) \/ cam_call.args[i] = Fin(0)
             /\ IsFinite(cam_call.args[i + 2])
             /\ \/ IsNormal(cam_ret[i])
                \/ cam_ret[i] = Fin(0) /\ cam_call.args[i + 2] = cam_position[i] )
              => ScreenCameBack(i)
        /\ ( /\ ConvertedThereAndBack("screen_to_world_to_screen", i)
             /\ ExactDiv(cam_call.args[i], cam_zoom)
             /\ ExactAdd(FDiv(cam_call.args[i], cam_zoom), cam_position[i]) )
              => cam_ret[i] = cam_call.args[i]

\* a point away from the camera has come back exactly from a camera that
\* is away from the origin and zoomed
C23_Witness ==
    /\ ConvertedThereAndBack("world_to_screen_to_world", 1)
    /\ ExactSub(cam_call.args[1], cam_position[1])
    /\ ExactMul(FSub(cam_call.args[1], cam_position[1]), cam_zoom)
    /\ cam_position[1] # Fin(0)
    /\ cam_call.args[1] # cam_position[1]
    /\ cam_zoom # F32(1, 1)
    /\ cam_ret[1] = cam_call.args[1]


\* ----------------------------------------------------- the lock machine
\* Window::handle_redraw and handle_resized statement by statement, as far
\* as locks and the GPU submission go, for the three kinds of window: the
\* EditorWindow of the app crate, the EditorWindow of the game crate (whose
\* scene and pass manager are behind locks) and the engine's ToolWindow.
WindowKinds == {"app::EditorWindow", "game::EditorWindow", "ToolWindow"}

\* render: moving says that a key is pressed (process_continuous_movement
\* goes on to the scene), pending that the game's window is captured with a
\* pending mouse delta
\* the guard of the pending-delta block lives on to the end of render
Locking_render_guard_kept(kind, moving, pending) ==
    IF kind = "game::EditorWindow"
    THEN (IF moving
          THEN <<Lock("scene"), Do("camera_process_movement"),
                 Unlock("scene")>>
          ELSE <<>>)
         \o (IF pending
             THEN <<Lock("scene"), Do("scene_accumulate_mouse")>>
             ELSE <<>>)
         \o <<Lock("scene"), Do("scene_update"), Do("scene_prepare_gpu"),
              Do("scene_render"), Lock("pass_manager"), Do("execute_all"),
              Unlock("pass_manager"), Unlock("scene")>>
    ELSE IF kind = "app::EditorWindow"
         THEN <<Do("scene_update"), Do("scene_prepare_gpu"),
                Do("scene_render"), Do("execute_all")>>
         ELSE <<Do("do_render_gpu")>>

Locking_render(kind, moving, pending) ==
    IF kind = "game::EditorWindow"
    THEN (IF moving
          THEN <<Lock("scene"), Do("camera_process_movement"),
                 Unlock("scene")>>
          ELSE <<>>)
         \o (IF pending
             THEN <<Lock("scene"), Do("scene_accumulate_mouse"),
                    Unlock("scene")>>
             ELSE <<>>)
         \o <<Lock("scene"), Do("scene_update"), Do("scene_prepare_gpu"),
              Do("scene_render"), Lock("pass_manager"), Do("execute_all"),
              Unlock("pass_manager"), Unlock("scene")>>
    ELSE IF kind = "app::EditorWindow"
         THEN <<Do("scene_update"), Do("scene_prepare_gpu"),
                Do("scene_render"), Do("execute_all")>>
         ELSE <<Do("do_render_gpu")>>

Locking_draw(kind) ==
    IF kind = "ToolWindow"
    THEN <<Lock("draw_callback"), Do("draw"), Unlock("draw_callback")>>
    ELSE <<Do("draw")>>

Locking_handle_redraw(kind, is_minimized, status, moving, pending) ==
    IF is_minimized THEN <<Do("is_minimized")>>
    ELSE <<Do("is_minimized"),
           Lock("state"), Do("read_config"), Unlock("state"),
           Lock("state"), Do("get_current_texture")>>
         \o (CASE status = "Ok" ->
                    <<Unlock("state"), Do("create_view"),
                      Lock("state"), Do("create_command_encoder")>>
                    \o Locking_render(kind, moving, pending)
                    \o <<Do("begin_frame")>>
                    \o Locking_draw(kind)
                    \o <<Do("end_frame_and_draw"), Do("queue_submit"),
                         Unlock("state"), Do("present"),
                         Do("request_redraw")>>
               [] status = "Outdated" -> <<Unlock("state")>>
               [] status = "Lost" ->
                    <<Unlock("state"), Lock("state"), Do("resize_surface"),
                      Unlock("state")>>
               [] OTHER -> <<Do("eprintln"), Unlock("state")>>)

Locking_handle_resized(kind, width, height) ==
    IF width > 0 /\ height > 0
    THEN CASE kind = "app::EditorWindow" ->
                <<Lock("state"), Do("resize_surface"), Unlock("state"),
                  Do("camera_set_viewport_size")>>
           [] kind = "game::EditorWindow" ->
                <<Lock("state"), Do("resize_surface"), Lock("scene"),
                  Do("camera_set_viewport_size"), Unlock("scene"),
                  Unlock("state")>>
           [] OTHER ->
                <<Lock("state"), Do("resize_surface"), Unlock("state")>>
    ELSE <<Do("resized_to_zero")>>

ApplyLock(code, held, doing) ==
    /\ lk_code' = code
    /\ lk_held' = held
    /\ lk_doing' = doing
    /\ UNCHANGED <<core_vars, trace, wm_vars, sp_vars, fs_vars, cam_vars,
                   key_vars,
                   egui_vars>>

\* App::window_event around the handler of the event: the window's lock is
\* held throughout, the state lock while the UI overlay sees the event
Locking_window_event(handler) ==
    <<Lock("window"), Lock("state"), Do("egui_handle_input"),
      Unlock("state")>> \o handler \o <<Unlock("window")>>

\* the KeyboardInput and MouseInput arms of App::window_event
Locking_input(event, pressed, captured, escape) ==
    IF event = "MouseInput"
    THEN (IF pressed THEN <<Do("set_mouse_capture")>> ELSE <<>>)
    ELSE IF pressed
         THEN IF ~captured THEN <<>>
              ELSE IF escape THEN <<Do("set_mouse_capture")>>
              ELSE <<Do("on_key_pressed"), Lock("state"), Do("press_key"),
                     Unlock("state")>>
         ELSE <<Do("on_key_released"), Lock("state"), Do("release_key"),
                Unlock("state")>>

\* App::device_event: the active window's lock around Window::device_event
Locking_device_event ==
    <<Lock("window"), Do("device_event"), Unlock("window")>>

\* WindowEvent::RedrawRequested reaches a window
LK_HandleRedraw ==
    \E kind \in WindowKinds, is_minimized \in BOOLEAN,
       status \in SurfaceResults, moving \in BOOLEAN, pending \in BOOLEAN :
        /\ lk_code = <<>>
        /\ ApplyLock(Locking_window_event(
                        Locking_handle_redraw(kind, is_minimized, status,
                                              moving, pending)),
                     lk_held, Do("handle_redraw"))

\* WindowEvent::Resized reaches a window
LK_HandleResized ==
    \E kind \in WindowKinds, width \in Dims, height \in Dims :
        /\ lk_code = <<>>
        /\ ApplyLock(Locking_window_event(
                        Locking_handle_resized(kind, width, height)),
                     lk_held, Do("handle_resized"))

\* WindowEvent::KeyboardInput or MouseInput, not consumed, reaches a window
LK_Input ==
    \E event \in {"KeyboardInput", "MouseInput"}, pressed \in BOOLEAN,
       captured \in BOOLEAN, escape \in BOOLEAN :
        /\ lk_code = <<>>
        /\ ApplyLock(Locking_window_event(
                        Locking_input(event, pressed, captured, escape)),
                     lk_held, Do("input"))

\* a device event reaches the active window
LK_DeviceEvent ==
    /\ lk_code = <<>>
    /\ ApplyLock(Locking_device_event, lk_held, Do("app_device_event"))

\* the handler's next statement is Mutex::lock().unwrap(); the Mutex is not
\* reentrant
LK_Lock ==
    /\ lk_code # <<>>
    /\ Head(lk_code).op = "lock"
    /\ Head(lk_code).arg \notin Range(lk_held)
    /\ ApplyLock(Tail(lk_code), Append(lk_held, Head(lk_code).arg),
                 Head(lk_code))

\* the handler's next statement drops a guard
LK_Unlock ==
    /\ lk_code # <<>>
    /\ Head(lk_code).op = "unlock"
    /\ ApplyLock(Tail(lk_code),
                 SelectSeq(lk_held, LAMBDA l : l # Head(lk_code).arg),
                 Head(lk_code))

\* the handler's next statement is anything else
LK_Do ==
    /\ lk_code # <<>>
    /\ Head(lk_code).op = "do"
    /\ ApplyLock(Tail(lk_code), lk_held, Head(lk_code))

InitLock == InitWith(EditorWindow_new_passes)

NextLock ==
    \/ LK_HandleRedraw
    \/ LK_HandleResized
    \/ LK_Input
    \/ LK_DeviceEvent
    \/ LK_Lock
    \/ LK_Unlock
    \/ LK_Do

SpecLock == InitLock /\ [][NextLock]_vars

\* the thread holds the lock l
Holds(l) == l \in Range(lk_held)

\* C25: in no reachable state is the window-state lock held while the
\* frame's command buffer is submitted to the GPU queue, nor while another
\* lock (scene, pass manager, draw callback) is being acquired.
C25_StateLockIsNarrow ==
    /\ lk_doing = Do("queue_submit") => ~Holds("state")
    /\ (lk_doing.op = "lock" /\ lk_doing.arg # "state") => ~Holds("state")

\* the next statement of the handler would block for ever: it locks a
\* Mutex the thread already holds
SelfDeadlock ==
    /\ lk_code # <<>>
    /\ Head(lk_code).op = "lock"
    /\ Holds(Head(lk_code).arg)

\* C31: wherever the state lock and the scene lock are both held the state
\* lock was acquired first (the state lock is never acquired with the scene
\* lock held), no handler acquires a lock it already holds, and so every
\* handler of a window event, a device event or a redraw runs to its end
\* with no lock left held.
C31_StateBeforeScene ==
    /\ (Holds("state") /\ Holds("scene")) =>
          \E i, j \in DOMAIN lk_held :
              i < j /\ lk_held[i] = "state" /\ lk_held[j] = "scene"
    /\ lk_doing = Lock("state") => ~Holds("scene")
    /\ ~SelfDeadlock
    /\ lk_code = <<>> => lk_held = <<>>

\* the game's window holds the state lock, then the scene lock, then the
\* pass manager's in render
C31_Witness ==
    /\ lk_held = <<"window", "state", "scene", "pass_manager">>
    /\ lk_doing = Lock("pass_manager")


\* ------------------------------------------------------------ AssetLoader
\* a panic, where a call returns no value at all
Panic == [ok |-> FALSE, data |-> <<>>, err |-> "panic"]

\* Texture2D::from_bytes: decodes says whether image::load_from_memory
\* decodes the bytes; on success the texture is made and uploaded
Texture2D_from_bytes_unwrap(v, bytes, decodes) ==
    IF decodes
    THEN [Log(Log(v, Ev("create_texture")), Ev("write_texture"))
            EXCEPT !.ret = Ok(bytes)]
    ELSE [v EXCEPT !.ret = Panic]

Texture2D_from_bytes(v, bytes, decodes) ==
    IF decodes
    THEN [Log(Log(v, Ev("create_texture")), Ev("write_texture"))
            EXCEPT !.ret = Ok(bytes)]
    ELSE [v EXCEPT !.ret = Err("image decode")]

AssetLoader_load_bytes(v, path) == Vfs_read_bytes(v, path)

AssetLoader_load_texture(v, path, decodes) ==
    LET v1 == AssetLoader_load_bytes(v, path)
    IN  IF ~v1.ret.ok
        THEN IF v1.ret = Panic THEN v1
             ELSE [v1 EXCEPT !.ret = Err("failed to load texture bytes")]
        ELSE LET v2 == Texture2D_from_bytes(v1, v1.ret.data, decodes)
             IN  IF v2.ret.ok \/ v2.ret = Panic THEN v2
                 ELSE [v2 EXCEPT !.ret = Err("failed to decode image")]

AssetLoader_write_bytes(v, path, data, io_ok) ==
    Vfs_write_bytes(v, path, data, io_ok)

\* ------------------------------------------------------ the asset machine
\* an AssetLoader over a Vfs whose mounts come and go
AS_LoadBytes ==
    \E path \in Paths :
        ApplyV(AssetLoader_load_bytes(CallV(V, Ev("load_bytes")), path),
               [op |-> "load_bytes", path |-> path, data |-> <<>>])

AS_LoadTexture ==
    \E path \in Paths, decodes \in BOOLEAN :
        ApplyV(AssetLoader_load_texture(CallV(V, Ev("load_texture")), path,
                                        decodes),
               [op |-> "load_texture", path |-> path, data |-> <<decodes>>])

AS_WriteBytes ==
    \E path \in Paths, data \in WriteData, io_ok \in BOOLEAN :
        /\ fs_writes < MaxWrites
        /\ ApplyV([AssetLoader_write_bytes(CallV(V, Ev("asset_write_bytes")),
                                           path, data, io_ok)
                        EXCEPT !.writes = @ + 1],
                  [op |-> "asset_write_bytes", path |-> path,
                   data |-> <<data>>])

InitAssets == InitWith(PassManager_new)

NextAssets ==
    \/ FS_Mount
    \/ FS_Unmount
    \/ AS_LoadBytes
    \/ AS_LoadTexture
    \/ AS_WriteBytes

SpecAssets == InitAssets /\ [][NextAssets]_vars

\* the file a read of the path resolves to is there
Readable(path) ==
    /\ Matching(fs_mounts, path) # {}
    /\ FileIn(fs_files, fs_mounts[Last(Matching(fs_mounts, path))], path) # <<>>

\* C26: asset errors are returned as error values and never panic:
\* load_bytes and load_texture of a path with no matching mount or a missing
\* file return Err, load_texture of bytes that do not decode returns the
\* decode error and makes no texture, write_bytes with no writable mount
\* returns Err.
C26_AssetErrorsAreValues ==
    /\ fs_ret # Panic
    /\ (fs_call.op = "load_bytes" /\ ~Readable(fs_call.path)) =>
          fs_ret \in {Err("no mount found"), Err("io")}
    /\ (fs_call.op = "load_texture" /\ ~Readable(fs_call.path)) =>
          fs_ret = Err("failed to load texture bytes")
    /\ (fs_call.op = "load_texture" /\ Readable(fs_call.path)
            /\ fs_call.data = <<FALSE>>) =>
          /\ fs_ret = Err("failed to decode image")
          /\ Count(trace, "create_texture") = 0
    /\ (fs_call.op = "asset_write_bytes"
            /\ \A i \in Matching(fs_mounts, fs_call.path) :
                   ~fs_mounts[i].writable) =>
          /\ fs_ret = Err("no writable mount found")
          /\ Count(trace, "fs_write") = 0

\* a texture whose file is there has failed to decode
C26_Witness ==
    /\ fs_call.op = "load_texture"
    /\ Readable(fs_call.path)
    /\ fs_call.data = <<FALSE>>
    /\ fs_ret = Err("failed to decode image")


\* ------------------------------------------------ the camera-move machine
\* process_movement on a camera constructed at (a, -a), a a sample point
\* the frame times: none, an eighth, a quarter, one whose speed * dt
\* overflows, and a negative one
DtValues == {F32(0, 1), F32(1, 8), F32(1, 4), F32(4, 1), F32(-1, 8)}

CAM_ProcessMovement ==
    \E direction \in CameraMovement2D, dt \in DtValues :
        ApplyCam(Camera2D_process_movement(CAM, direction, dt),
                 [op |-> "process_movement", args |-> <<direction, dt>>])

InitMove ==
    \E a \in SamplePoints :
        InitWithCamera(<<>>, Camera2D_new_centered(a, FNeg(a), INITIAL_WIDTH,
                                                   INITIAL_HEIGHT))

NextMove == CAM_ProcessMovement

SpecMove == InitMove /\ [][NextMove]_vars

\* the coordinate a direction moves (x is 1, y is 2), the way it moves it,
\* and the direction that undoes it
Axis(direction) == IF direction \in {"Left", "Right"} THEN 1 ELSE 2
Toward(direction) == IF direction \in {"Up", "Left"} THEN -1 ELSE 1
Opposite(direction) ==
    CASE direction = "Up" -> "Down"
      [] direction = "Down" -> "Up"
      [] direction = "Left" -> "Right"
      [] direction = "Right" -> "Left"

\* this step is process_movement(direction, dt)
Moves(direction, dt) ==
    cam_call' = [op |-> "process_movement", args |-> <<direction, dt>>]

\* this step leaves everything but the direction's coordinate as it was
MovesOnlyItsAxis(direction) ==
    /\ cam_position'[3 - Axis(direction)] = cam_position[3 - Axis(direction)]
    /\ cam_zoom' = cam_zoom
    /\ cam_speed' = cam_speed
    /\ cam_viewport' = cam_viewport

\* the call before this step moved by dt in the opposite direction
UndoesTheCallBefore(direction, dt) ==
    cam_call = [op |-> "process_movement",
                args |-> <<Opposite(direction), dt>>]

\* C27 as stated: process_movement moves one coordinate by speed * dt, Up and
\* Left downwards and Down and Right upwards, leaves the other coordinate,
\* zoom, speed and viewport as they were, and two moves in opposite
\* directions with the same dt restore the position.
C27_OppositeMovesRestore ==
    [][\A direction \in CameraMovement2D, dt \in DtValues :
          Moves(direction, dt) =>
              /\ MovesOnlyItsAxis(direction)
              /\ UndoesTheCallBefore(direction, dt) =>
                     cam_position' = cam_before]_vars

\* the move from a to b by speed * dt in the direction was not rounded
ExactMove(a, b, direction, dt) ==
    /\ IsFinite(a) /\ IsFinite(b) /\ IsFinite(FMul(cam_speed, dt))
    /\ b.v = a.v + Toward(direction) * FMul(cam_speed, dt).v

\* C27, amended: process_movement replaces one coordinate by the rounded
\* coordinate -/+ speed * dt, which for a finite coordinate and a dt >= 0
\* never lies on the wrong side of the old one and is the exact sum whenever
\* that is a value of the format; the rest is unchanged; two opposite moves with the same dt restore
\* the position when the first was not rounded, and come within one unit in
\* the last place of the position in between when it was rounded to a
\* finite value.
C27_OppositeMovesRestoreUnrounded ==
    [][\A direction \in CameraMovement2D, dt \in DtValues :
          Moves(direction, dt) =>
              LET k == Axis(direction)
                  old == cam_position[k]
                  new == cam_position'[k]
                  velocity == FMul(cam_speed, dt)
              IN  /\ MovesOnlyItsAxis(direction)
                  /\ (IsFinite(old) /\ IsFinite(velocity)
                          /\ old.v + Toward(direction) * velocity.v
                                 \in FiniteValues) =>
                         new = Fin(old.v + Toward(direction) * velocity.v)
                  /\ (FLe(F32(0, 1), dt) /\ IsFinite(old)) =>
                         IF Toward(direction) < 0 THEN FLe(new, old)
                                                  ELSE FLe(old, new)
                  /\ (UndoesTheCallBefore(direction, dt)
                          /\ ExactMove(cam_before[k], old,
                                       Opposite(direction), dt)) =>
                         cam_position' = cam_before
                  /\ (UndoesTheCallBefore(direction, dt)
                          /\ IsFinite(cam_before[k]) /\ IsFinite(old)
                          /\ IsFinite(velocity)) =>
                         /\ IsFinite(new)
                         /\ Abs(new.v - cam_before[k].v) <= Ulp(old.v)]_vars

\* Down by a quarter of a second from y = 0 and Up again by the same
C27_Witness ==
    /\ cam_call = [op |-> "process_movement", args |-> <<"Up", F32(1, 4)>>]
    /\ cam_before = <<F32(0, 1), FMul(F32(Camera2D_speed, 1), F32(1, 4))>>
    /\ cam_position = <<F32(0, 1), F32(0, 1)>>


\* ------------------------------------------------- the UI-frame machine
\* begin_frame and end_frame_and_draw called on an EguiRenderer, directly
\* and through the passes of a PassManager; the history counts the frames
\* begun and the UI draws of the call's effect log
ApplyEgui(w) ==
    /\ ApplyFields(w)
    /\ NoDrain
    /\ egui_begun' = egui_begun + Count(w.trace, "egui_begin_pass")
    /\ egui_drawn' = egui_drawn + Count(w.trace, "egui_main_pass")
    /\ UNCHANGED <<wm_vars, sp_vars, fs_vars, cam_vars, key_vars, lock_vars>>

EG_BeginFrame ==
    /\ egui_begun < MaxFrames
    /\ ApplyEgui(EguiRenderer_begin_frame(Call(W, Ev("begin_frame"))))

EG_EndFrameAndDraw ==
    /\ egui_drawn <= MaxFrames
    /\ ApplyEgui(EguiRenderer_end_frame_and_draw(
                    Call(W, Ev("end_frame_and_draw"))))

EG_Add ==
    \E p \in PassNames :
        /\ Len(passes) < MaxPasses
        /\ ApplyEgui(PassManager_add(Call(W, EvS("add", p)), p))

EG_ExecuteAll ==
    /\ egui_drawn <= MaxFrames
    /\ ApplyEgui(PassManager_execute_all(Call(W, Ev("execute_all"))))

InitEgui == InitWith(PassManager_new)

NextEgui ==
    \/ EG_BeginFrame
    \/ EG_EndFrameAndDraw
    \/ EG_Add
    \/ EG_ExecuteAll

SpecEgui == InitEgui /\ [][NextEgui]_vars

\* C32: the UI draws never outnumber the begin_frame calls, they are fewer
\* whenever a frame is pending, and an end_frame_and_draw or a pass list
\* run with no frame pending draws nothing.
C32_DrawsNeverExceedBegins ==
    /\ [](egui_drawn <= egui_begun)
    /\ [](frame_started => egui_drawn < egui_begun)
    /\ [][~frame_started => egui_drawn' = egui_drawn]_vars

\* a second end_frame_and_draw after one frame has drawn nothing
C32_Witness ==
    /\ trace = <<Ev("end_frame_and_draw"), Ev("egui_warn_no_begin_frame")>>
    /\ egui_begun = 1
    /\ egui_drawn = 1


\* --------------------------------------------------- the input machine
\* keyboard and pointer-button window events reaching App::window_event;
\* the call's log starts with the event and its ElementState
ElementState(pressed) ==
    EvS("element_state", IF pressed THEN "Pressed" ELSE "Released")

IN_KeyboardInput ==
    \E key \in KeyCodes, pressed \in BOOLEAN, consumed \in BOOLEAN :
        /\ Apply(App_keyboard_input(
                    Log(Call(W, EvS("keyboard_input", key)),
                        ElementState(pressed)),
                    key, pressed, consumed))
        /\ NoDrain

IN_MouseInput ==
    \E pressed \in BOOLEAN, consumed \in BOOLEAN :
        /\ Apply(App_mouse_input(
                    Log(Call(W, Ev("mouse_input")), ElementState(pressed)),
                    pressed, consumed))
        /\ NoDrain

InitInput == InitWith(EditorWindow_new_passes)

NextInput ==
    \/ IN_KeyboardInput
    \/ IN_MouseInput

SpecInput == InitInput /\ [][NextInput]_vars

\* the call of the log is an unconsumed press: of a pointer button, of a key
UnconsumedPress(t) ==
    /\ Len(t) >= 2
    /\ t[2] = ElementState(TRUE)
    /\ ~ConsumedInput(t)
ButtonPress(t) == IsCall(t, "mouse_input") /\ UnconsumedPress(t)
KeyPress(t, key) == UnconsumedPress(t) /\ t[1] = EvS("keyboard_input", key)

\* C33: in App::window_event the window's capture flag changes in two ways
\* only, and in both it does: an unconsumed pointer-button press sets it,
\* an unconsumed Escape press while it is set clears it. A key joins the
\* window's or the WindowState's pressed keys only by its unconsumed press
\* while the mouse is captured, and Escape never joins them.
C33_CaptureAndKeysFollowInput ==
    [][/\ win_mouse_captured' # win_mouse_captured =>
              \/ ButtonPress(trace') /\ win_mouse_captured'
              \/ KeyPress(trace', "Escape") /\ win_mouse_captured
       /\ ButtonPress(trace') => win_mouse_captured'
       /\ (KeyPress(trace', "Escape") /\ win_mouse_captured) =>
              ~win_mouse_captured'
       /\ \A key \in KeyCodes :
              (\/ key \in win_pressed_keys' \ win_pressed_keys
               \/ key \in ws_pressed_keys' \ ws_pressed_keys) =>
                  /\ KeyPress(trace', key)
                  /\ win_mouse_captured
                  /\ key # "Escape"
       /\ "Escape" \notin win_pressed_keys' \cup ws_pressed_keys']_vars

\* Escape has released a captured mouse with a key held
C33_Witness ==
    /\ KeyPress(trace, "Escape")
    /\ ~win_mouse_captured
    /\ "KeyS" \in win_pressed_keys
    /\ Count(trace, "set_cursor_grab") = 1


\* C34: after any sequence of keyboard and pointer-button events handled
\* by App::window_event the window's own pressed keys are the keys of
\* WindowState.pressed_keys.
C34_PressedKeysAgree == win_pressed_keys = ws_pressed_keys

\* a key was pressed with the mouse captured, and another was pressed and
\* released
C34_Witness ==
    /\ Len(trace) >= 2
    /\ trace[1] = EvS("keyboard_input", "KeyW")
    /\ trace[2] = ElementState(FALSE)
    /\ win_pressed_keys = {"KeyS"}
    /\ ws_pressed_keys = {"KeyS"}


\* C35 as stated: after any sequence of window events the capture flag of
\* the window's WindowState is the capture flag the window reports.
C35_CaptureFlagsAgree == ws_mouse_captured = win_mouse_captured


\* this step reads (read_bytes, read_to_string, exists) the path the call
\* before it wrote with success
ReadsBackTheWrite ==
    /\ fs_call.op = "write_bytes"
    /\ fs_ret = Unit
    /\ fs_call'.op \in {"read_bytes", "read_to_string", "exists"}
    /\ fs_call'.path = fs_call.path

\* what the write wrote is what the read returns
ReturnsTheWritten ==
    IF fs_call'.op = "exists" THEN fs_ret'.ok
    ELSE fs_ret' = Ok(fs_call.data)

\* C36 as stated: for any set of mounts, after write_bytes(path, data)
\* returns Ok, read_bytes(path) returns data and exists(path) is true.
C36_WriteIsVisibleToRead ==
    [][ReadsBackTheWrite => ReturnsTheWritten]_vars

\* C36, amended: the write is visible to the read when the most recent
\* mount matching the path is writable, so that both resolve to it; when it
\* is read-only the read returns that mount's own file, or fails when it has
\* none.
C36_WriteIsVisibleThroughWritableTop ==
    [][ReadsBackTheWrite =>
          LET top == fs_mounts[Last(Matching(fs_mounts, fs_call.path))]
              file == FileIn(fs_files, top, fs_call.path)
          IN  IF top.writable THEN ReturnsTheWritten
              ELSE IF fs_call'.op = "exists" THEN fs_ret'.ok = (file # <<>>)
                   ELSE fs_ret' = IF file = <<>> THEN Err("io")
                                  ELSE Ok(file)]_vars

\* a write through two mounts of "x", the later one writable, has been read
\* back
C36_Witness ==
    /\ fs_call = [op |-> "read_bytes", path |-> <<"x", "f">>, data |-> <<>>]
    /\ fs_ret = Ok(<<0>>)
    /\ Len(fs_mounts) = 2
    /\ fs_mounts[1].prefix = <<"x">>
    /\ fs_mounts[2].prefix = <<"x">>
    /\ fs_mounts[2].writable


\* the mounts matching the path, other than the most recent one, that hold
\* the file
LowerHolders(mounts, files, path) ==
    {i \in Matching(mounts, path) \ {Last(Matching(mounts, path))} :
        FileIn(files, mounts[i], path) # <<>>}

\* C37: read_bytes, read_to_string and exists return the result of the most
\* recent mount matching the path and of no other: when that mount does not
\* hold the file the read fails and exists is false, whatever the earlier
\* matching mounts hold, and a read that succeeds returns that mount's file.
C37_ReadConsultsOnlyTheTopMount ==
    [][(fs_call'.op \in {"read_bytes", "read_to_string", "exists"}
            /\ Matching(fs_mounts, fs_call'.path) # {}) =>
          LET top == fs_mounts[Last(Matching(fs_mounts, fs_call'.path))]
              missing == FileIn(fs_files, top, fs_call'.path) = <<>>
          IN  IF fs_call'.op = "exists" THEN fs_ret'.ok = ~missing
              ELSE fs_ret' = IF missing THEN Err("io")
                             ELSE Ok(FileIn(fs_files, top, fs_call'.path))]_vars

\* a read of "y/f" has failed through the most recent mount while an
\* earlier matching mount holds the file
C37_Witness ==
    /\ fs_call = [op |-> "read_bytes", path |-> <<"y", "f">>, data |-> <<>>]
    /\ fs_ret = Err("io")
    /\ LowerHolders(fs_mounts, fs_files, <<"y", "f">>) # {}


\* ------------------------------------------------- the camera on a resize
\* the camera's viewport after a handler: what its last set_viewport_size
\* call set, the viewport before when it made none
ViewportAfter(t, viewport) ==
    LET S == {i \in 1..Len(t) : t[i].ev = "camera_set_viewport_size"}
    IN  IF S = {} THEN viewport
        ELSE Camera2D_set_viewport_size([viewport |-> viewport],
                                        t[Last(S)].d[1],
                                        t[Last(S)].d[2]).viewport

ApplyResize(w) ==
    /\ ApplyFields(w)
    /\ acc_owed' = acc_owed
    /\ acc_drained' = Zero2
    /\ cam_viewport' = ViewportAfter(w.trace, cam_viewport)
    /\ UNCHANGED <<cam_position, cam_zoom, cam_speed, cam_call, cam_ret,
                   cam_before>>
    /\ UNCHANGED <<wm_vars, sp_vars, fs_vars, key_vars, lock_vars, egui_vars>>

\* WindowEvent::Resized
RS_Resized ==
    \E width \in Dims, height \in Dims :
        /\ ApplyResize(EditorWindow_handle_resized(
                          Call(W, EvD("resized", <<width, height>>)),
                          width, height))
        /\ last_resize' = IF width # 0 /\ height # 0
                          THEN <<width, height>> ELSE last_resize

\* WindowEvent::RedrawRequested, with the Lost path that configures the
\* surface again
RS_RedrawRequested ==
    \E status \in SurfaceResults :
        /\ ApplyResize(Window_handle_redraw(Call(W, Ev("handle_redraw")),
                                            status))
        /\ UNCHANGED last_resize

RS_Minimize ==
    /\ ApplyResize([Call(W, Ev("platform_minimize"))
                      EXCEPT !.minimized = ~minimized])
    /\ UNCHANGED last_resize

\* EditorWindow::new makes the surface configuration from INITIAL_WIDTH and
\* INITIAL_HEIGHT and the camera from the window's inner size, which the
\* platform chooses
InitResize ==
    \E size \in ((Dims \ {0}) \X (Dims \ {0}))
                    \cup {<<INITIAL_WIDTH, INITIAL_HEIGHT>>} :
        InitWithCamera(EditorWindow_new_passes, Camera2D_new(size[1], size[2]))

NextResize ==
    \/ RS_Resized
    \/ RS_RedrawRequested
    \/ RS_Minimize

SpecResize == InitResize /\ [][NextResize]_vars

\* a resize with two non-zero dimensions has been handled (no resize event
\* of the model carries the initial dimensions)
Resized == last_resize # <<INITIAL_WIDTH, INITIAL_HEIGHT>>

\* C38: handle_resized(w, h) with w > 0 and h > 0 sets the surface
\* configuration and the camera viewport to (w, h), with w = 0 or h = 0 it
\* changes neither; once a resize with non-zero dimensions has been
\* handled, the camera viewport is the surface configuration's size in
\* every state.
C38_ViewportFollowsSurface ==
    /\ [][IsCall(trace', "resized") =>
            LET d == trace'[1].d
            IN  IF d[1] > 0 /\ d[2] > 0
                THEN /\ config' = [width |-> d[1], height |-> d[2]]
                     /\ cam_viewport' = d
                ELSE /\ config' = config
                     /\ cam_viewport' = cam_viewport]_vars
    /\ [](Resized => cam_viewport = <<config.width, config.height>>)

\* a resize to (2, 1) has set the surface and the camera, and a resize with
\* a zero width after it has changed neither
C38_Witness ==
    /\ IsCall(trace, "resized")
    /\ trace[1].d = <<0, 1>>
    /\ Len(trace) = 1
    /\ cam_viewport = <<2, 1>>
    /\ config = [width |-> 2, height |-> 1]


\* C39 as stated: select_next_active_window leaves the registry unchanged
\* and sets the active window to None when the registry is empty, to the
\* first registered window when none is active, otherwise to the window
\* after the active one in registration order, wrapping from the last to
\* the first; with a non-empty registry the active window it leaves is an
\* entry of the registry.
C39_SelectNextCycles ==
    [][IsCall(trace', "select_next_active_window") =>
          LET at == {i \in DOMAIN wm_windows : wm_windows[i] = wm_active}
          IN  /\ wm_windows' = wm_windows
              /\ wm_windows = <<>> => wm_active' = NoWindow
              /\ (wm_windows # <<>> /\ wm_active = NoWindow) =>
                    wm_active' = wm_windows[1]
              /\ (wm_windows # <<>> /\ at # {}) =>
                    wm_active' = wm_windows[(Last(at) % Len(wm_windows)) + 1]
              /\ wm_windows # <<>> => wm_active' \in Range(wm_windows')]_vars


====
